---- MODULE Spec2Model ----
(***************************************************************************)
(* Model of the Diagnostic Reasoning Engine (src/services/diagnostic.py)   *)
(* and of the collaborators it calls (src/services/vector_store.py,        *)
(* src/models/schemas.py, src/config.py).                                  *)
(*                                                                         *)
(* Numbers.  Python floats are modelled as exact decimal fixed point:      *)
(*   similarity scores     in hundredths        (0 .. 100)                 *)
(*   prevalence            in millionths        (0 .. 1000000)             *)
(*   confidence            in units of 10^-9    (0 .. 1000000000)          *)
(* Text.  A Python str is a sequence of one-character strings, so that     *)
(* lower(), concatenation and the `in` substring test are computed.        *)
(***************************************************************************)
EXTENDS Integers, Sequences, FiniteSets, TLC

None == "None"          \* Python None where the other values are strings

\* Optional[T] for structured T: <<>> is None, <<x>> is the value x
Nothing == <<>>
Some(x) == <<x>>

\* ------------------------------------------------------------------ bounds
MaxSymptoms == 1        \* longest symptom list submitted to the pipeline
MaxLimit == 2           \* largest configured final_results_limit
MaxScreenSymptoms == 2  \* longest symptom list given to the red-flag screen on its own
MaxRareHits == 6        \* most rare diseases one rare-disease search returns
MaxCallers == 2         \* most analyze_patient_case calls running at once
MaxDescriptors == 2     \* longest descriptor list given to the encoder on its own
MaxPatientDescriptors == 2  \* longest patient descriptor list given to _compare_symptoms
MaxThreads == 3         \* most threads inside get_diagnostic_service at once
MaxBreakerCalls == 3    \* most calls made through one circuit breaker
MaxClock == 3           \* seconds of wall-clock time that pass

\* ------------------------------------------------------------ fixed point
ConfOne == 1000000000   \* confidence 1.0
PrevOne == 1000000      \* prevalence 1.0
SimOne == 100           \* similarity 1.0

Min(a, b) == IF a <= b THEN a ELSE b

\* ------------------------------------------------------------------- text
UpperChars == <<"A","B","C","D","E","F","G","H","I","J","K","L","M","N","O","P","Q","R","S","T","U","V","W","X","Y","Z">>
LowerChars == <<"a","b","c","d","e","f","g","h","i","j","k","l","m","n","o","p","q","r","s","t","u","v","w","x","y","z">>

\* str.lower() on one character
LowerChar(c) ==
    IF \E i \in 1..Len(UpperChars) : UpperChars[i] = c
    THEN LowerChars[CHOOSE i \in 1..Len(UpperChars) : UpperChars[i] = c]
    ELSE c

\* str.lower()
Lower(s) == [i \in 1..Len(s) |-> LowerChar(s[i])]

\* the Python test `needle in hay` on two strings
Contains(hay, needle) ==
    \E k \in 0..(Len(hay) - Len(needle)) :
        \A j \in 1..Len(needle) : hay[k + j] = needle[j]

\* Python list slice lst[:n] for n >= 0
Take(lst, n) == SubSeq(lst, 1, Min(n, Len(lst)))

Reverse(s) == [i \in 1..Len(s) |-> s[Len(s) + 1 - i]]

Range(s) == {s[i] : i \in 1..Len(s)}

\* ---------------------------------------------------------------- schemas
\* Severity(str, Enum): value strings
SeverityValue ==
    [MILD     |-> <<"m","i","l","d">>,
     MODERATE |-> <<"m","o","d","e","r","a","t","e">>,
     SEVERE   |-> <<"s","e","v","e","r","e">>,
     CRITICAL |-> <<"c","r","i","t","i","c","a","l">>]

Severity == {"MILD", "MODERATE", "SEVERE", "CRITICAL"}

ReviewTier == {"TIER1_AUTOMATED", "TIER2_PRIMARY_CARE", "TIER3_SPECIALIST", "TIER4_MULTIDISCIPLINARY"}

\* the tier's number (1 = least oversight, 4 = most)
TierNumber(t) ==
    CASE t = "TIER1_AUTOMATED"         -> 1
      [] t = "TIER2_PRIMARY_CARE"      -> 2
      [] t = "TIER3_SPECIALIST"        -> 3
      [] t = "TIER4_MULTIDISCIPLINARY" -> 4

\* --------------------------------------------------------------- settings
tier1_confidence_threshold == 850000000
tier2_confidence_threshold == 600000000
tier3_confidence_threshold == 400000000

top_k_candidates == 50  \* settings.top_k_candidates
rare_limit == 20        \* limit of _search_rare_diseases

DefaultThresholds ==
    [tier1 |-> tier1_confidence_threshold,
     tier2 |-> tier2_confidence_threshold,
     tier3 |-> tier3_confidence_threshold]

\* ------------------------------------------------------------- red flags
\* DiagnosticService.red_flag_keywords, in the order the source lists them
red_flag_keywords ==
    << <<"c","h","e","s","t"," ","p","a","i","n">>,
       <<"s","e","v","e","r","e"," ","h","e","a","d","a","c","h","e">>,
       <<"d","i","f","f","i","c","u","l","t","y"," ","b","r","e","a","t","h","i","n","g">>,
       <<"s","h","o","r","t","n","e","s","s"," ","o","f"," ","b","r","e","a","t","h">>,
       <<"l","o","s","s"," ","o","f"," ","c","o","n","s","c","i","o","u","s","n","e","s","s">>,
       <<"s","e","i","z","u","r","e">>,
       <<"s","t","r","o","k","e">>,
       <<"p","a","r","a","l","y","s","i","s">>,
       <<"s","e","v","e","r","e"," ","b","l","e","e","d","i","n","g">>,
       <<"s","e","v","e","r","e"," ","a","b","d","o","m","i","n","a","l"," ","p","a","i","n">>,
       <<"s","u","d","d","e","n"," ","v","i","s","i","o","n"," ","l","o","s","s">>,
       <<"c","o","n","f","u","s","i","o","n">>,
       <<"a","l","t","e","r","e","d"," ","m","e","n","t","a","l"," ","s","t","a","t","u","s">>,
       <<"s","e","v","e","r","e"," ","t","r","a","u","m","a">>,
       <<"c","h","o","k","i","n","g">>,
       <<"a","n","a","p","h","y","l","a","x","i","s">>,
       <<"s","u","i","c","i","d","e">>,
       <<"s","e","v","e","r","e"," ","b","u","r","n">> >>

\* A Python set of str iterates in an order fixed by the process's string
\* hash seed: arbitrary, but the same for the whole life of the process.
\* Seed 0 iterates in listing order, seed 1 in the opposite order.
HashSeeds == {0, 1}

\* iteration order of the set made of the members of `universe` that are in S
SetIterate(seed, universe, S) ==
    SelectSeq(IF seed = 0 THEN universe ELSE Reverse(universe), LAMBDA x : x \in S)

CriticalPrefix == <<"C","r","i","t","i","c","a","l"," ","s","e","v","e","r","i","t","y",":"," ">>

\* the keywords of kws (a list) found in `text`, appended to `flags` unless present
RECURSIVE ScanKeywords(_, _, _, _)
ScanKeywords(kws, text, flags, dedupe) ==
    IF kws = <<>> THEN flags
    ELSE LET kw  == Head(kws)
             hit == Contains(text, kw) /\ (dedupe => \A i \in 1..Len(flags) : flags[i] # kw)
         IN  ScanKeywords(Tail(kws), text, IF hit THEN Append(flags, kw) ELSE flags, dedupe)

\* the symptom loop without its severity check
RECURSIVE ScanSymptoms_no_severity(_, _, _)
ScanSymptoms_no_severity(kws, symptoms, flags) ==
    IF symptoms = <<>> THEN flags
    ELSE ScanSymptoms_no_severity(kws, Tail(symptoms),
             ScanKeywords(kws, Lower(Head(symptoms).description), flags, TRUE))

\* the loop over patient_case.symptoms of _detect_red_flags
RECURSIVE ScanSymptoms(_, _, _)
ScanSymptoms(kws, symptoms, flags) ==
    IF symptoms = <<>> THEN flags
    ELSE LET symptom   == Head(symptoms)
             afterKw   == ScanKeywords(kws, Lower(symptom.description), flags, TRUE)
             afterCrit == IF symptom.severity = "CRITICAL"
                          THEN Append(afterKw, CriticalPrefix \o symptom.description)
                          ELSE afterKw
         IN  ScanSymptoms(kws, Tail(symptoms), afterCrit)

\* DiagnosticService._detect_red_flags
detect_red_flags(seed, patient_case) ==
    LET kws == SetIterate(seed, red_flag_keywords, Range(red_flag_keywords))
        fromComplaint == ScanKeywords(kws, Lower(patient_case.chief_complaint), <<>>, FALSE)
    IN  ScanSymptoms(kws, patient_case.symptoms, fromComplaint)

\* ------------------------------------------------------------ normaliser
Digits == <<"0","1","2","3","4","5","6","7","8","9">>

\* str(n) for 0 <= n <= 99, as the f-string formats duration_days
IntToStr(n) ==
    IF n < 10 THEN <<Digits[n + 1]>>
    ELSE <<Digits[(n \div 10) + 1], Digits[(n % 10) + 1]>>

\* one descriptor of DiagnosticService._extract_symptoms; duration_days and
\* location are Optional (Nothing or Some(value)), and 0 and "" are falsy too
Descriptor(symptom) ==
    LET withSeverity == symptom.description \o <<" ","(">> \o SeverityValue[symptom.severity]
                          \o <<" ","s","e","v","e","r","i","t","y",")">>
        withDuration == IF symptom.duration_days # Nothing /\ symptom.duration_days[1] # 0
                        THEN withSeverity \o <<" ","f","o","r"," ">>
                               \o IntToStr(symptom.duration_days[1]) \o <<" ","d","a","y","s">>
                        ELSE withSeverity
    IN  IF symptom.location # Nothing /\ symptom.location[1] # <<>>
        THEN withDuration \o <<" ","i","n"," ">> \o symptom.location[1]
        ELSE withDuration

\* DiagnosticService._extract_symptoms: chief complaint first, then one descriptor per symptom
extract_symptoms(patient_case) ==
    <<patient_case.chief_complaint>> \o
    [i \in 1..Len(patient_case.symptoms) |-> Descriptor(patient_case.symptoms[i])]

\* DiagnosticService._calculate_symptom_weights: [1.0] * len(symptoms)
calculate_symptom_weights(symptoms) == [i \in 1..Len(symptoms) |-> 1]

\* The vector the embedding provider returns for a constellation: the model is
\* a function of the descriptors and weights, so the vector is named by them.
ConstellationVector(symptoms, weights) == [of |-> symptoms, weights |-> weights]

\* ---------------------------------------------------------- knowledge base
\* MedicalCondition entries held by the vector index
Conditions ==
    { [condition_id |-> "cond_001", prevalence |-> 150000, is_rare_disease |-> FALSE,
       recommended_tests |-> <<"CBC", "Chest X-ray">>, specialist_referral |-> "Pulmonology"],
      [condition_id |-> "cond_002", prevalence |-> 0, is_rare_disease |-> TRUE,
       recommended_tests |-> <<"MRI">>, specialist_referral |-> None],
      [condition_id |-> "cond_003", prevalence |-> 2000, is_rare_disease |-> TRUE,
       recommended_tests |-> <<"MRI", "Genetic panel">>, specialist_referral |-> "Neurology"] }

\* identifiers of the rare diseases of a larger collection
RareIds == <<"rare_01", "rare_02", "rare_03", "rare_04", "rare_05", "rare_06", "rare_07", "rare_08">>

\* the i-th rare disease of the larger collection
RareCondition(i) ==
    [condition_id |-> RareIds[i], prevalence |-> 10, is_rare_disease |-> TRUE,
     recommended_tests |-> <<"MRI">>, specialist_referral |-> None]

\* every condition a collection can hold
Catalogue == Conditions \cup {RareCondition(i) : i \in 1..Len(RareIds)}

ConditionById(id) == CHOOSE c \in Catalogue : c.condition_id = id

\* the payload stored for a condition: its fields as JSON, where a key can be absent
Payload(c) == [c EXCEPT !.prevalence = Some(c.prevalence)]

\* a stored payload that has no prevalence key
MalformedPayload ==
    [condition_id |-> "cond_004", prevalence |-> Nothing, is_rare_disease |-> TRUE,
     recommended_tests |-> <<>>, specialist_referral |-> None]

\* the payloads of the points in the collection
Payloads == {Payload(c) : c \in Conditions} \cup {MalformedPayload}

\* MedicalCondition(**payload): prevalence is a required field, 0 <= prevalence <= 1
PayloadValid(payload) ==
    /\ payload.prevalence # Nothing
    /\ payload.prevalence[1] >= 0
    /\ payload.prevalence[1] <= PrevOne

MedicalCondition(payload) == [payload EXCEPT !.prevalence = payload.prevalence[1]]

\* every specialist / test string of the knowledge base, in one listing order
SpecialistUniverse == <<"Pulmonology", "Neurology">>
TestUniverse == <<"CBC", "Chest X-ray", "MRI", "Genetic panel">>

\* similarity scores the index can report
Scores == {45, 55, 95, 100}

\* exceptions a provider call can raise
ProviderErrors == {"ConnectionError", "TimeoutError"}

\* the rare-disease pass searching with the filter of the common pass
RareFilter_as_common == [is_rare_disease |-> Nothing, min_prevalence |-> Some(1000)]

\* filters of the two passes (VectorStoreService._build_filter)
NoFilters == [is_rare_disease |-> Nothing, min_prevalence |-> Nothing]
CommonFilter == [is_rare_disease |-> Nothing, min_prevalence |-> Some(1000)]
RareFilter == [is_rare_disease |-> Some(TRUE), min_prevalence |-> Nothing]

\* does payload c satisfy a filter dictionary (Qdrant must-conditions); a
\* range condition on an absent key does not match
MatchesFilter(c, filters) ==
    /\ (filters.is_rare_disease # Nothing => c.is_rare_disease = filters.is_rare_disease[1])
    /\ (filters.min_prevalence # Nothing =>
            /\ c.prevalence # Nothing
            /\ c.prevalence[1] >= filters.min_prevalence[1])

\* what client.search can return: at most `limit` distinct points that pass the
\* filter, each scoring at least the threshold, best score first
SearchResults(limit, score_threshold, filters) ==
    LET hits == {h \in [payload : Payloads, score : Scores] :
                    MatchesFilter(h.payload, filters) /\ h.score >= score_threshold}
        points == {c \in Payloads : MatchesFilter(c, filters)}
    IN  {r \in UNION {[1..n -> hits] : n \in 0..Min(limit, Cardinality(points))} :
            /\ \A i, j \in 1..Len(r) : i < j =>
                   /\ r[i].payload # r[j].payload
                   /\ r[i].score >= r[j].score}

\* the conversion loop of search: one (MedicalCondition, score) per scored point
ConvertResults(search_result) ==
    [i \in 1..Len(search_result) |->
        [condition |-> MedicalCondition(search_result[i].payload),
         score |-> search_result[i].score]]

\* MedicalCondition(**scored_point.payload) raises ValidationError for some point
ConversionRaises(search_result) ==
    \E i \in 1..Len(search_result) : ~PayloadValid(search_result[i].payload)

\* search with the except clause of get_condition_by_id: log, return nothing
vs_search_swallow(outcome) ==
    IF outcome.ok /\ ~ConversionRaises(outcome.hits)
    THEN [raised |-> None, value |-> ConvertResults(outcome.hits)]
    ELSE [raised |-> None, value |-> <<>>]

\* VectorStoreService.search around one client.search outcome: the except
\* clause logs and re-raises the same exception, the provider's or the
\* ValidationError of the conversion
vs_search(outcome) ==
    IF ~outcome.ok THEN [raised |-> outcome.exc, value |-> <<>>]
    ELSE IF ConversionRaises(outcome.hits) THEN [raised |-> "ValidationError", value |-> <<>>]
    ELSE [raised |-> None, value |-> ConvertResults(outcome.hits)]

\* VectorStoreService.get_condition_by_id around one client.retrieve outcome:
\* the except clause logs and returns None
vs_get_condition_by_id(outcome) ==
    IF outcome.ok THEN [raised |-> None, value |-> outcome.hits]
    ELSE [raised |-> None, value |-> Nothing]

\* ------------------------------------------------------------------ scorer
\* the scorer without its two min() caps
calculate_confidence_uncapped(condition, similarity_score) ==
    LET prevalence_factor == condition.prevalence * 10
        adjusted == similarity_score * (900000 + prevalence_factor \div 10)
    IN  IF condition.is_rare_disease THEN adjusted * 9 ELSE adjusted * 10

\* the scorer taking the prevalence itself as the prevalence factor
calculate_confidence_unscaled(condition, similarity_score) ==
    LET prevalence_factor == Min(PrevOne, condition.prevalence)
        adjusted == similarity_score * (900000 + prevalence_factor \div 10)
        rared == IF condition.is_rare_disease THEN adjusted * 9 ELSE adjusted * 10
    IN  Min(ConfOne, rared)

\* the scorer with a prevalence adjustment of 0.9 + 0.2 * prevalence_factor
calculate_confidence_boosted(condition, similarity_score) ==
    LET prevalence_factor == Min(PrevOne, condition.prevalence * 10)
        adjusted == similarity_score * (900000 + 2 * (prevalence_factor \div 10))
        rared == IF condition.is_rare_disease THEN adjusted * 9 ELSE adjusted * 10
    IN  Min(ConfOne, rared)

\* the value _calculate_confidence holds before its last statement, the cap
confidence_before_cap(condition, similarity_score) ==
    LET prevalence_factor == Min(PrevOne, condition.prevalence * 10)
        adjusted == similarity_score * (900000 + prevalence_factor \div 10)
    IN  IF condition.is_rare_disease THEN adjusted * 9 ELSE adjusted * 10

\* DiagnosticService._calculate_confidence, in units of 10^-9
calculate_confidence(condition, similarity_score) ==
    LET prevalence_factor == Min(PrevOne, condition.prevalence * 10)
        adjusted == similarity_score * (900000 + prevalence_factor \div 10)
        rared == IF condition.is_rare_disease THEN adjusted * 9 ELSE adjusted * 10
    IN  Min(ConfOne, rared)

\* DiagnosticService._calculate_probability as the fraction <<numerator, denominator>>
calculate_probability(condition, similarity_score) ==
    LET prior == condition.prevalence
        likelihood == similarity_score
    IN  << prior * likelihood,
           prior * likelihood + (PrevOne - prior) * (SimOne - likelihood) >>

\* one DifferentialDiagnosis of _rank_and_score_diagnoses
ScoreCandidate(cand) ==
    [condition_id |-> cand.condition.condition_id,
     similarity_score |-> cand.score,
     confidence_score |-> calculate_confidence(cand.condition, cand.score),
     probability |-> calculate_probability(cand.condition, cand.score),
     recommended_next_steps |-> Take(cand.condition.recommended_tests, 3)]

\* the insertion of a sort without reverse=True
InsertByConfidence_ascending(front, d) ==
    LET k == Cardinality({i \in 1..Len(front) : front[i].confidence_score <= d.confidence_score})
    IN  SubSeq(front, 1, k) \o <<d>> \o SubSeq(front, k + 1, Len(front))

\* the insertion of a sort that puts an entry before those of equal confidence
InsertByConfidence_before_ties(front, d) ==
    LET k == Cardinality({i \in 1..Len(front) : front[i].confidence_score > d.confidence_score})
    IN  SubSeq(front, 1, k) \o <<d>> \o SubSeq(front, k + 1, Len(front))

\* where list.sort(reverse=True) puts d among the already sorted `front`:
\* after every entry whose confidence is at least d's
InsertByConfidence(front, d) ==
    LET k == Cardinality({i \in 1..Len(front) : front[i].confidence_score >= d.confidence_score})
    IN  SubSeq(front, 1, k) \o <<d>> \o SubSeq(front, k + 1, Len(front))

\* list.sort(key=confidence_score, reverse=True) on the first n entries:
\* stable, equal keys keep their order
RECURSIVE SortByConfidence(_, _)
SortByConfidence(ds, n) ==
    IF n = 0 THEN <<>>
    ELSE InsertByConfidence(SortByConfidence(ds, n - 1), ds[n])

\* DiagnosticService._rank_and_score_diagnoses
rank_and_score_diagnoses(candidates) ==
    LET diagnoses == [i \in 1..Len(candidates) |-> ScoreCandidate(candidates[i])]
    IN  SortByConfidence(diagnoses, Len(diagnoses))

\* the division of _calculate_probability raises ZeroDivisionError
ScoringRaises(candidates) ==
    \E i \in 1..Len(candidates) :
        calculate_probability(candidates[i].condition, candidates[i].score)[2] = 0

\* ---------------------------------------------------------- tier classifier
\* the classifier without the emergency override
determine_review_tier_no_override(thresholds, confidence, requires_emergency) ==
    IF confidence >= thresholds.tier1 THEN "TIER1_AUTOMATED"
    ELSE IF confidence >= thresholds.tier2 THEN "TIER2_PRIMARY_CARE"
    ELSE IF confidence >= thresholds.tier3 THEN "TIER3_SPECIALIST"
    ELSE "TIER4_MULTIDISCIPLINARY"

\* the classifier with exclusive lower bounds
determine_review_tier_exclusive(thresholds, confidence, requires_emergency) ==
    IF requires_emergency THEN "TIER1_AUTOMATED"
    ELSE IF confidence > thresholds.tier1 THEN "TIER1_AUTOMATED"
    ELSE IF confidence > thresholds.tier2 THEN "TIER2_PRIMARY_CARE"
    ELSE IF confidence > thresholds.tier3 THEN "TIER3_SPECIALIST"
    ELSE "TIER4_MULTIDISCIPLINARY"

\* the classifier with the Tier-2 comparison the wrong way round
determine_review_tier_flipped(thresholds, confidence, requires_emergency) ==
    IF requires_emergency THEN "TIER1_AUTOMATED"
    ELSE IF confidence >= thresholds.tier1 THEN "TIER1_AUTOMATED"
    ELSE IF confidence <= thresholds.tier2 THEN "TIER2_PRIMARY_CARE"
    ELSE IF confidence >= thresholds.tier3 THEN "TIER3_SPECIALIST"
    ELSE "TIER4_MULTIDISCIPLINARY"

\* DiagnosticService._determine_review_tier
determine_review_tier(thresholds, confidence, requires_emergency) ==
    IF requires_emergency THEN "TIER1_AUTOMATED"
    ELSE IF confidence >= thresholds.tier1 THEN "TIER1_AUTOMATED"
    ELSE IF confidence >= thresholds.tier2 THEN "TIER2_PRIMARY_CARE"
    ELSE IF confidence >= thresholds.tier3 THEN "TIER3_SPECIALIST"
    ELSE "TIER4_MULTIDISCIPLINARY"

\* --------------------------------------------------------- recommendations
\* DiagnosticService._generate_recommendations; lookups[i] is what
\* get_condition_by_id returned for the i-th of the top 3 diagnoses
generate_recommendations(seed, diagnoses, lookups) ==
    LET top == Take(diagnoses, 3)
        specialists == {lookups[i][1].specialist_referral :
                          i \in {j \in 1..Len(top) :
                                   /\ lookups[j] # Nothing
                                   /\ lookups[j][1].specialist_referral # None}}
        tests == UNION {Range(top[i].recommended_next_steps) : i \in 1..Len(top)}
    IN  [specialists |-> SetIterate(seed, SpecialistUniverse, specialists),
         tests |-> Take(SetIterate(seed, TestUniverse, tests), 5)]

\* ------------------------------------------------------------------ inputs
ChestPain == <<"C","h","e","s","t"," ","p","a","i","n">>
SevereChestPain == <<"S","e","v","e","r","e"," ","c","h","e","s","t"," ","p","a","i","n">>
Fever == <<"F","e","v","e","r">>

\* chief complaints submitted
Complaints == {ChestPain, Fever}

\* SymptomInput values submitted
SymptomInputs ==
    { [description |-> SevereChestPain, severity |-> "MODERATE",
       duration_days |-> Nothing, location |-> Some(<<"c","h","e","s","t">>)],
      [description |-> Fever, severity |-> "MILD",
       duration_days |-> Some(3), location |-> Nothing],
      [description |-> Fever, severity |-> "CRITICAL",
       duration_days |-> Nothing, location |-> Nothing] }

SymptomLists == UNION {[1..n -> SymptomInputs] : n \in 0..MaxSymptoms}

\* ages submitted: one valid, one below and one above the schema's range
Ages == {35, -5, 151}

\* ------------------------------------------------------------------- state
VARIABLES
    hash_seed,              \* the process's string hash seed
    settings,               \* Settings fields the engine reads
    pc,                     \* position of the request
    patient_case,           \* Optional PatientCase
    red_flags,              \* locals of analyze_patient_case ...
    requires_emergency,
    standardized_symptoms,
    query_embedding,        \* Optional vector
    common_candidates,
    rare_candidates,
    ranked_diagnoses,
    condition_lookups,      \* what get_condition_by_id returned for the top diagnoses
    uuids_issued,           \* how many uuid4() values have been drawn
    first_result,           \* Optional result of an earlier analysis of the same case
    result,                 \* Optional DiagnosticResult returned to the caller
    error,                  \* the exception that reached the caller, or None
    calls,                  \* provider calls made so far, in order
    provider_failures,      \* provider calls that raised, with what they raised
    tier_in,                \* inputs given to the tier classifier on its own
    tier_out,               \* the tiers it returned for them
    score_in,               \* one candidate given to the scorer on its own
    score_out,              \* what the scorer computed for it
    request,                \* Optional HTTP request being served by a route
    audit_enabled,          \* settings.enable_audit_logging
    audit_records,          \* the AuditLog entries written to the audit file
    response,               \* Optional HTTP response of the route
    service,                \* fields of a DiagnosticService shared by concurrent calls
    collection,             \* identifiers of the points the index holds
    callers,                \* the locals of each concurrent analyze_patient_case call
    enc_in,                 \* arguments given to encode_symptom_constellation on its own
    enc_out,                \* what it returned or raised
    cmp_in,                 \* arguments given to _compare_symptoms on its own
    cmp_out,                \* the two lists it returned
    container,              \* class attributes of ServiceContainer
    threads,                \* threads inside ServiceContainer.get_diagnostic_service
    breaker,                \* fields of a CircuitBreaker
    clock,                  \* datetime.utcnow(), in seconds
    breaker_calls           \* the calls made through the breaker, in the order they began

vars == <<hash_seed, settings, pc, patient_case, red_flags, requires_emergency,
          standardized_symptoms, query_embedding, common_candidates, rare_candidates,
          ranked_diagnoses, condition_lookups, uuids_issued, first_result, result, error,
          calls, provider_failures, tier_in, tier_out, score_in, score_out,
          request, audit_enabled, audit_records, response,
          service, collection, callers, enc_in, enc_out, cmp_in, cmp_out,
          container, threads, breaker, clock, breaker_calls>>

locals == <<red_flags, requires_emergency, standardized_symptoms, query_embedding,
            common_candidates, rare_candidates, ranked_diagnoses, condition_lookups>>

\* what outlives one analysis
history == <<uuids_issued, first_result>>

tierVars == <<tier_in, tier_out>>

scoreVars == <<score_in, score_out>>

routeVars == <<request, audit_enabled, audit_records, response>>

concVars == <<service, collection, callers>>

encVars == <<enc_in, enc_out>>

cmpVars == <<cmp_in, cmp_out>>

containerVars == <<container, threads>>

breakerVars == <<breaker, clock, breaker_calls>>

\* the variables of the components modelled apart from the pipeline
apartVars == <<concVars, encVars, cmpVars, containerVars, breakerVars>>

\* the variables analyze_patient_case has no access to
unitVars == <<tierVars, scoreVars, routeVars, apartVars>>

\* no route is serving a request: the engine is called directly
NoRoute ==
    /\ request = Nothing
    /\ audit_enabled = TRUE
    /\ audit_records = <<>>
    /\ response = Nothing

\* no concurrent calls are under way
NoCallers ==
    /\ service = [model |-> TRUE, client |-> TRUE]
    /\ collection = {}
    /\ callers = <<>>

\* the encoder is not being exercised on its own
NoEncoder ==
    /\ enc_in = Nothing
    /\ enc_out = Nothing

\* the symptom comparison is not being exercised on its own
NoCompare ==
    /\ cmp_in = Nothing
    /\ cmp_out = Nothing

\* ServiceContainer as the class statement leaves it, no thread inside it
NoContainer ==
    /\ container = [diagnostic_service |-> Nothing, constructed |-> 0, initialized |-> {}]
    /\ threads = <<>>

\* no circuit breaker has been constructed
NoBreaker ==
    /\ breaker = Nothing
    /\ clock = 0
    /\ breaker_calls = <<>>

\* the components modelled apart from the pipeline are not in use
ApartIdle ==
    /\ NoCallers
    /\ NoEncoder
    /\ NoCompare
    /\ NoContainer
    /\ NoBreaker

\* no request is being analysed and no route is serving one
PipelineIdle ==
    /\ hash_seed = 0
    /\ settings = [thresholds |-> DefaultThresholds,
                   top_k_candidates |-> top_k_candidates,
                   final_results_limit |-> MaxLimit,
                   enable_rare_disease_detection |-> TRUE]
    /\ pc = "idle"
    /\ patient_case = Nothing
    /\ red_flags = <<>>
    /\ requires_emergency = FALSE
    /\ standardized_symptoms = <<>>
    /\ query_embedding = Nothing
    /\ common_candidates = <<>>
    /\ rare_candidates = <<>>
    /\ ranked_diagnoses = <<>>
    /\ condition_lookups = <<>>
    /\ uuids_issued = 0
    /\ first_result = Nothing
    /\ result = Nothing
    /\ error = None
    /\ calls = <<>>
    /\ provider_failures = <<>>
    /\ tier_in = [c1 |-> 0, c2 |-> 0, emergency |-> FALSE]
    /\ tier_out = Nothing
    /\ score_in = [condition |-> ConditionById("cond_001"), score |-> 0]
    /\ score_out = Nothing
    /\ NoRoute

\* the variables of the pipeline and of the routes
pipelineVars == <<hash_seed, settings, pc, patient_case, locals, history, result, error, calls,
                  provider_failures, tierVars, scoreVars, routeVars>>

NoTierInput == [c1 |-> 0, c2 |-> 0, emergency |-> FALSE]

NoScoreInput == [condition |-> ConditionById("cond_001"), score |-> 0]

\* the fields of `settings` that analyze_patient_case reads
PipelineSettings ==
    [thresholds : {DefaultThresholds},
     top_k_candidates : {top_k_candidates},
     final_results_limit : 0..MaxLimit,
     enable_rare_disease_detection : BOOLEAN]

Init ==
    /\ hash_seed \in HashSeeds
    /\ settings \in PipelineSettings
    /\ pc = "new"
    /\ patient_case = Nothing
    /\ red_flags = <<>>
    /\ requires_emergency = FALSE
    /\ standardized_symptoms = <<>>
    /\ query_embedding = Nothing
    /\ common_candidates = <<>>
    /\ rare_candidates = <<>>
    /\ ranked_diagnoses = <<>>
    /\ condition_lookups = <<>>
    /\ uuids_issued = 0
    /\ first_result = Nothing
    /\ result = Nothing
    /\ error = None
    /\ calls = <<>>
    /\ provider_failures = <<>>
    /\ tier_in = NoTierInput
    /\ tier_out = Nothing
    /\ score_in = NoScoreInput
    /\ score_out = Nothing
    /\ NoRoute
    /\ ApartIdle

\* ----------------------------------------------------------------- actions
\* PatientCase(...): pydantic validates the fields when the request is built
PatientCaseValid(age, chief_complaint, symptoms) == age >= 0 /\ age <= 150

CreatePatientCase ==
    /\ pc = "new"
    /\ \E age \in Ages, chief_complaint \in Complaints, symptoms \in SymptomLists :
        IF PatientCaseValid(age, chief_complaint, symptoms)
        THEN /\ patient_case' = Some([case_id |-> "case_001", age |-> age,
                                      chief_complaint |-> chief_complaint,
                                      symptoms |-> symptoms])
             /\ pc' = "analyze"
             /\ error' = error
        ELSE /\ patient_case' = Nothing
             /\ pc' = "rejected"
             /\ error' = "ValidationError"
    /\ UNCHANGED <<hash_seed, settings, locals, history, result, calls, provider_failures, unitVars>>

Call(op, query_vector, limit, score_threshold, filters) ==
    [op |-> op, query_vector |-> query_vector, limit |-> limit,
     score_threshold |-> score_threshold, filters |-> filters]

\* analyze_patient_case, steps 1-3: red-flag screen, normaliser, and the one
\* embedding call, which returns the constellation vector or raises
Encode ==
    /\ pc = "analyze"
    /\ \E flags \in {detect_red_flags(hash_seed, patient_case[1])} :
       \E symptoms \in {extract_symptoms(patient_case[1])} :
       \E weights \in {calculate_symptom_weights(symptoms)} :
           /\ red_flags' = flags
           /\ requires_emergency' = (Len(flags) > 0)
           /\ standardized_symptoms' = symptoms
           /\ calls' = Append(calls, Call("encode_symptom_constellation", Nothing, 0, 0, NoFilters))
           /\ \/ /\ query_embedding' = Some(ConstellationVector(symptoms, weights))
                 /\ pc' = "search_common"
                 /\ UNCHANGED <<error, provider_failures>>
              \/ \E e \in ProviderErrors :
                 /\ provider_failures' = Append(provider_failures,
                                                [op |-> "encode_symptom_constellation", exc |-> e])
                 /\ error' = e
                 /\ pc' = "raised"
                 /\ UNCHANGED query_embedding
    /\ UNCHANGED <<hash_seed, settings, patient_case, common_candidates, rare_candidates,
                   ranked_diagnoses, condition_lookups, history, result, unitVars>>

\* outcomes of one client.search call
SearchOutcomes(limit, score_threshold, filters) ==
    {[ok |-> TRUE, hits |-> r, exc |-> None] : r \in SearchResults(limit, score_threshold, filters)}
    \cup {[ok |-> FALSE, hits |-> <<>>, exc |-> e] : e \in ProviderErrors}

\* step 4, stage 1: _search_common_conditions
SearchCommon ==
    /\ pc = "search_common"
    /\ \E outcome \in SearchOutcomes(settings.top_k_candidates, 50, CommonFilter) :
        \E ret \in {vs_search(outcome)} :
            /\ calls' = Append(calls, Call("search", query_embedding,
                                           settings.top_k_candidates, 50, CommonFilter))
            /\ provider_failures' = IF outcome.ok THEN provider_failures
                                    ELSE Append(provider_failures, [op |-> "search", exc |-> outcome.exc])
            /\ IF ret.raised # None
               THEN /\ error' = ret.raised
                    /\ pc' = "raised"
                    /\ UNCHANGED common_candidates
               ELSE /\ common_candidates' = ret.value
                    /\ pc' = IF settings.enable_rare_disease_detection
                             THEN "search_rare" ELSE "rank"
                    /\ UNCHANGED error
    /\ UNCHANGED <<hash_seed, settings, patient_case, red_flags, requires_emergency,
                   standardized_symptoms, query_embedding, rare_candidates,
                   ranked_diagnoses, condition_lookups, history, result, unitVars>>

\* step 4, stage 2: _search_rare_diseases, only when rare-disease detection is enabled
SearchRare ==
    /\ pc = "search_rare"
    /\ \E outcome \in SearchOutcomes(rare_limit, 60, RareFilter) :
        \E ret \in {vs_search(outcome)} :
            /\ calls' = Append(calls, Call("search", query_embedding, rare_limit, 60, RareFilter))
            /\ provider_failures' = IF outcome.ok THEN provider_failures
                                    ELSE Append(provider_failures, [op |-> "search", exc |-> outcome.exc])
            /\ IF ret.raised # None
               THEN /\ error' = ret.raised
                    /\ pc' = "raised"
                    /\ UNCHANGED rare_candidates
               ELSE /\ rare_candidates' = ret.value
                    /\ pc' = "rank"
                    /\ UNCHANGED error
    /\ UNCHANGED <<hash_seed, settings, patient_case, red_flags, requires_emergency,
                   standardized_symptoms, query_embedding, common_candidates,
                   ranked_diagnoses, condition_lookups, history, result, unitVars>>

\* what one client.retrieve call can do: return the point, return no point,
\* or raise
RetrieveKinds == {"point", "no_point", "raise"}

\* outcome of one client.retrieve call of the given kind for a condition id
RetrieveOutcome(kind, condition_id) ==
    CASE kind = "point"    -> [ok |-> TRUE, hits |-> Some(ConditionById(condition_id)), exc |-> None]
      [] kind = "no_point" -> [ok |-> TRUE, hits |-> Nothing, exc |-> None]
      [] kind = "raise"    -> [ok |-> FALSE, hits |-> Nothing, exc |-> "ConnectionError"]

\* what the n client.retrieve calls of one analysis can do: each returns its
\* point or raises, or the collection has been emptied since the searches and
\* every call returns no point
RetrievePatterns(n) ==
    [1..n -> RetrieveKinds \ {"no_point"}] \cup {[i \in 1..n |-> "no_point"]}

\* the separation without its membership test
RareDiseases_all_ranked(ranked, rare) == ranked

\* the list comprehension that separates the rare diseases
RareDiseases(ranked, rare) ==
    SelectSeq(ranked, LAMBDA d : \E i \in 1..Len(rare) : rare[i].condition.condition_id = d.condition_id)

\* primary diagnosis set from the Tier-2 threshold up
PrimaryDiagnosis_tier2(ranked, overall_confidence, thresholds) ==
    IF ranked # <<>> /\ overall_confidence >= thresholds.tier2
    THEN Some(ranked[1]) ELSE Nothing

\* primary diagnosis, set only when confidence is high
PrimaryDiagnosis(ranked, overall_confidence, thresholds) ==
    IF ranked # <<>> /\ overall_confidence >= thresholds.tier1
    THEN Some(ranked[1]) ELSE Nothing

\* overall confidence read from the lowest-ranked diagnosis
OverallConfidence_last(ranked) ==
    IF ranked # <<>> THEN ranked[Len(ranked)].confidence_score ELSE 0

\* step 6: ranked_diagnoses[0].confidence_score if ranked_diagnoses else 0.0
OverallConfidence(ranked) ==
    IF ranked # <<>> THEN ranked[1].confidence_score ELSE 0

\* a result that also asks for emergency care when nothing was ranked
BuildResult_escalates_unranked(result_id, case_id, cfg, ranked, rare, flags, emergency, recs) ==
    LET overall_confidence == OverallConfidence(ranked)
    IN  [result_id |-> result_id,
         case_id |-> case_id,
         differential_diagnoses |-> Take(ranked, cfg.final_results_limit),
         primary_diagnosis |-> PrimaryDiagnosis(ranked, overall_confidence, cfg.thresholds),
         review_tier |-> determine_review_tier(cfg.thresholds, overall_confidence, emergency),
         overall_confidence |-> overall_confidence,
         red_flags_detected |-> flags,
         requires_emergency_care |-> (emergency \/ ranked = <<>>),
         rare_diseases_considered |-> Take(RareDiseases(ranked, rare), 5),
         recommended_specialists |-> recs.specialists,
         recommended_tests |-> recs.tests]

\* DiagnosticResult(...) as analyze_patient_case builds it; the narrative, the
\* feature-importance map, the timing and the timestamp are left out
BuildResult(result_id, case_id, cfg, ranked, rare, flags, emergency, recs) ==
    LET overall_confidence == OverallConfidence(ranked)
    IN  [result_id |-> result_id,
         case_id |-> case_id,
         differential_diagnoses |-> Take(ranked, cfg.final_results_limit),
         primary_diagnosis |-> PrimaryDiagnosis(ranked, overall_confidence, cfg.thresholds),
         review_tier |-> determine_review_tier(cfg.thresholds, overall_confidence, emergency),
         overall_confidence |-> overall_confidence,
         red_flags_detected |-> flags,
         requires_emergency_care |-> emergency,
         rare_diseases_considered |-> Take(RareDiseases(ranked, rare), 5),
         recommended_specialists |-> recs.specialists,
         recommended_tests |-> recs.tests]

\* analyze_patient_case, steps 5-9 and the result: scoring and ranking, the
\* tier, the get_condition_by_id lookups of the recommendations, the result
RankAndBuild ==
    /\ pc = "rank"
    /\ LET all_candidates == common_candidates \o rare_candidates
       IN  IF ScoringRaises(all_candidates)
           THEN /\ error' = "ZeroDivisionError"
                /\ pc' = "raised"
                /\ UNCHANGED <<ranked_diagnoses, condition_lookups, uuids_issued, result,
                                calls, provider_failures>>
           ELSE \E ranked \in {rank_and_score_diagnoses(all_candidates)} :
                \E kinds \in RetrievePatterns(Min(3, Len(ranked))) :
                \E outcomes \in {[i \in DOMAIN kinds |-> RetrieveOutcome(kinds[i], ranked[i].condition_id)]} :
                \E lookups \in {[i \in DOMAIN kinds |-> vs_get_condition_by_id(outcomes[i]).value]} :
                \E recs \in {generate_recommendations(hash_seed, ranked, lookups)} :
                    /\ ranked_diagnoses' = ranked
                    /\ condition_lookups' = lookups
                    /\ uuids_issued' = uuids_issued + 1
                    /\ calls' = calls \o [i \in DOMAIN kinds |->
                                            Call("retrieve", Nothing, 0, 0, NoFilters)]
                    /\ provider_failures' = provider_failures \o
                           SelectSeq([i \in DOMAIN kinds |-> [op |-> "retrieve", exc |-> outcomes[i].exc]],
                                     LAMBDA f : f.exc # None)
                    /\ result' = Some(BuildResult(uuids_issued + 1, patient_case[1].case_id,
                                                  settings, ranked, rare_candidates,
                                                  red_flags, requires_emergency, recs))
                    /\ pc' = "done"
                    /\ UNCHANGED error
    /\ UNCHANGED <<hash_seed, settings, patient_case, red_flags, requires_emergency,
                   standardized_symptoms, query_embedding, common_candidates, rare_candidates,
                   first_result, unitVars>>

Next ==
    \/ CreatePatientCase
    \/ Encode
    \/ SearchCommon
    \/ SearchRare
    \/ RankAndBuild

Spec == Init /\ [][Next]_vars

\* ------------------------------------------------ the same case analysed twice
\* the deployment's settings: both retrieval passes, the largest output limit
InitTwice ==
    /\ Init
    /\ settings.final_results_limit = MaxLimit
    /\ settings.enable_rare_disease_detection

\* analyze_patient_case run again on the same PatientCase, by a process whose
\* string hash seed is `seed`, with providers that answer every call as they
\* did the first time: the same vector, the same search results, the same
\* retrieved conditions
AnalyzeAgain ==
    /\ pc = "done"
    /\ first_result = Nothing
    /\ \E seed \in HashSeeds :
       \E flags \in {detect_red_flags(seed, patient_case[1])} :
       \E ranked \in {rank_and_score_diagnoses(common_candidates \o rare_candidates)} :
       \E recs \in {generate_recommendations(seed, ranked, condition_lookups)} :
           /\ hash_seed' = seed
           /\ red_flags' = flags
           /\ requires_emergency' = (Len(flags) > 0)
           /\ ranked_diagnoses' = ranked
           /\ uuids_issued' = uuids_issued + 1
           /\ first_result' = result
           /\ result' = Some(BuildResult(uuids_issued + 1, patient_case[1].case_id,
                                         settings, ranked, rare_candidates,
                                         flags, Len(flags) > 0, recs))
    /\ calls' = calls \o calls
    /\ provider_failures' = provider_failures \o provider_failures
    /\ pc' = "done"
    /\ UNCHANGED <<settings, patient_case, standardized_symptoms, query_embedding,
                   common_candidates, rare_candidates, condition_lookups, error, unitVars>>

NextTwice ==
    \/ Next
    \/ AnalyzeAgain

SpecTwice == InitTwice /\ [][NextTwice]_vars

\* ------------------------------------- ranking and assembly, larger collection
\* the case analysed
FeverCase ==
    [case_id |-> "case_001", age |-> 35, chief_complaint |-> Fever,
     symptoms |-> <<[description |-> Fever, severity |-> "MILD",
                     duration_days |-> Some(3), location |-> Nothing]>>]

\* what the common-conditions search returned
CommonHits ==
    { <<>> } \cup
    { <<[condition |-> ConditionById("cond_001"), score |-> sc]>> : sc \in {55, 100} } \cup
    { <<[condition |-> ConditionById("cond_001"), score |-> 95],
        [condition |-> ConditionById("cond_003"), score |-> 55]>> }

\* what the rare-disease search returned: the first n rare diseases, the
\* first k of them with similarity 1.0 and the others with 0.95
RareHits ==
    { [i \in 1..n |-> [condition |-> RareCondition(i), score |-> IF i <= k THEN 100 ELSE 95]] :
        n \in 0..MaxRareHits, k \in 0..MaxRareHits }

\* analyze_patient_case after its two searches have returned
InitAssemble ==
    /\ hash_seed \in HashSeeds
    /\ settings \in [thresholds : {DefaultThresholds},
                     top_k_candidates : {top_k_candidates},
                     final_results_limit : 0..MaxLimit,
                     enable_rare_disease_detection : {TRUE}]
    /\ pc = "rank"
    /\ patient_case = Some(FeverCase)
    /\ red_flags = detect_red_flags(hash_seed, FeverCase)
    /\ requires_emergency = FALSE
    /\ standardized_symptoms = extract_symptoms(FeverCase)
    /\ query_embedding = Some(ConstellationVector(standardized_symptoms,
                                                  calculate_symptom_weights(standardized_symptoms)))
    /\ common_candidates \in CommonHits
    /\ rare_candidates \in RareHits
    /\ ranked_diagnoses = <<>>
    /\ condition_lookups = <<>>
    /\ uuids_issued = 0
    /\ first_result = Nothing
    /\ result = Nothing
    /\ error = None
    /\ calls = << Call("encode_symptom_constellation", Nothing, 0, 0, NoFilters),
                  Call("search", query_embedding, settings.top_k_candidates, 50, CommonFilter),
                  Call("search", query_embedding, rare_limit, 60, RareFilter) >>
    /\ provider_failures = <<>>
    /\ tier_in = NoTierInput
    /\ tier_out = Nothing
    /\ score_in = NoScoreInput
    /\ score_out = Nothing
    /\ NoRoute
    /\ ApartIdle

NextAssemble == RankAndBuild

SpecAssemble == InitAssemble /\ [][NextAssemble]_vars

\* -------------------------------------------------------- the two routes
\* POST /analyze and POST /analyze/enhanced with its three query flags
Requests ==
    [endpoint : {"/analyze", "/analyze/enhanced"},
     include_explanation : BOOLEAN,
     include_questions : BOOLEAN,
     include_report : BOOLEAN]

\* the optional AI steps of /analyze/enhanced, in the order the handler runs them
AISteps == <<"detailed_explanation", "follow_up_questions", "medical_report">>

\* does the handler run the i-th AI step for this request and result
StepRuns(req, res, i) ==
    /\ req.endpoint = "/analyze/enhanced"
    /\ res.differential_diagnoses # <<>>
    /\ CASE i = 1 -> req.include_explanation
         [] i = 2 -> req.include_questions
         [] i = 3 -> req.include_report

\* the AuditLog entry log_diagnostic_analysis creates
AuditEntry(case, res) ==
    [case_id |-> case.case_id,
     result_id |-> res.result_id,
     action_type |-> "diagnostic_analysis",
     user_id |-> "user_1",
     user_role |-> "physician"]

\* a route has received a request; analyze_patient_case, which it calls
\* first, has made its embedding call and its common-conditions search
InitRoutes ==
    /\ hash_seed = 0
    /\ settings \in [thresholds : {DefaultThresholds},
                     top_k_candidates : {top_k_candidates},
                     final_results_limit : {MaxLimit},
                     enable_rare_disease_detection : {TRUE}]
    /\ pc = "search_rare"
    /\ patient_case = Some(FeverCase)
    /\ red_flags = detect_red_flags(hash_seed, FeverCase)
    /\ requires_emergency = FALSE
    /\ standardized_symptoms = extract_symptoms(FeverCase)
    /\ query_embedding = Some(ConstellationVector(standardized_symptoms,
                                                  calculate_symptom_weights(standardized_symptoms)))
    /\ common_candidates \in { <<>>, <<[condition |-> ConditionById("cond_001"), score |-> 95]>> }
    /\ rare_candidates = <<>>
    /\ ranked_diagnoses = <<>>
    /\ condition_lookups = <<>>
    /\ uuids_issued = 0
    /\ first_result = Nothing
    /\ result = Nothing
    /\ error = None
    /\ calls = << Call("encode_symptom_constellation", Nothing, 0, 0, NoFilters),
                  Call("search", query_embedding, settings.top_k_candidates, 50, CommonFilter) >>
    /\ provider_failures = <<>>
    /\ tier_in = NoTierInput
    /\ tier_out = Nothing
    /\ score_in = NoScoreInput
    /\ score_out = Nothing
    /\ request \in {Some(r) : r \in Requests}
    /\ audit_enabled \in BOOLEAN
    /\ audit_records = <<>>
    /\ response = Nothing
    /\ ApartIdle

\* the handlers after service.analyze_patient_case has returned a result:
\* /analyze/enhanced awaits the requested AI steps, each of which returns or
\* raises RuntimeError; then audit.log_diagnostic_analysis, which writes one
\* entry unless audit logging is disabled or the write fails (logged, not
\* raised); then the 200 response. An exception ends the handler in its
\* except clause, which answers 500.
RouteReturns ==
    /\ pc = "done"
    /\ request # Nothing
    /\ response = Nothing
    /\ \E ai \in [1..Len(AISteps) -> {"returns", "raises"}], write_ok \in BOOLEAN :
       \E ran \in {{i \in 1..Len(AISteps) : StepRuns(request[1], result[1], i)}} :
           IF \E i \in ran : ai[i] = "raises"
           THEN /\ response' = Some([status |-> 500, ai_enhancements |-> {}])
                /\ UNCHANGED audit_records
           ELSE /\ audit_records' =
                      IF audit_enabled /\ write_ok
                      THEN Append(audit_records, AuditEntry(patient_case[1], result[1]))
                      ELSE audit_records
                /\ response' = Some([status |-> 200,
                                     ai_enhancements |-> {AISteps[i] : i \in ran}])
    /\ pc' = "responded"
    /\ UNCHANGED <<hash_seed, settings, patient_case, locals, history, result, error, calls,
                   provider_failures, tierVars, scoreVars, request, audit_enabled, apartVars>>

\* the handlers when service.analyze_patient_case raised: the except clause
\* answers 500
RouteFails ==
    /\ pc = "raised"
    /\ request # Nothing
    /\ response = Nothing
    /\ response' = Some([status |-> 500, ai_enhancements |-> {}])
    /\ pc' = "responded"
    /\ UNCHANGED <<hash_seed, settings, patient_case, locals, history, result, error, calls,
                   provider_failures, tierVars, scoreVars, request, audit_enabled, audit_records, apartVars>>

NextRoutes ==
    \/ SearchRare
    \/ RankAndBuild
    \/ RouteReturns
    \/ RouteFails

SpecRoutes == InitRoutes /\ [][NextRoutes]_vars

\* ------------------------------------------ the red-flag screen on its own
\* a complaint that mentions two emergency keywords
ChestPainConfusion ==
    <<"C","h","e","s","t"," ","p","a","i","n",","," ","c","o","n","f","u","s","i","o","n">>

\* the cases screened: complaints with no, one and two keywords, and every
\* symptom list up to the bound
ScreenCases ==
    [case_id : {"case_001"}, age : {35},
     chief_complaint : Complaints \cup {ChestPainConfusion},
     symptoms : UNION {[1..n -> SymptomInputs] : n \in 0..MaxScreenSymptoms}]

InitScreen ==
    /\ hash_seed \in HashSeeds
    /\ settings \in [thresholds : {DefaultThresholds},
                     top_k_candidates : {top_k_candidates},
                     final_results_limit : {MaxLimit},
                     enable_rare_disease_detection : {TRUE}]
    /\ pc = "screen"
    /\ patient_case \in {Some(c) : c \in ScreenCases}
    /\ red_flags = <<>>
    /\ requires_emergency = FALSE
    /\ standardized_symptoms = <<>>
    /\ query_embedding = Nothing
    /\ common_candidates = <<>>
    /\ rare_candidates = <<>>
    /\ ranked_diagnoses = <<>>
    /\ condition_lookups = <<>>
    /\ uuids_issued = 0
    /\ first_result = Nothing
    /\ result = Nothing
    /\ error = None
    /\ calls = <<>>
    /\ provider_failures = <<>>
    /\ tier_in = NoTierInput
    /\ tier_out = Nothing
    /\ score_in = NoScoreInput
    /\ score_out = Nothing
    /\ NoRoute
    /\ ApartIdle

\* step 1 of analyze_patient_case: _detect_red_flags and the emergency flag
Screen ==
    /\ pc = "screen"
    /\ \E flags \in {detect_red_flags(hash_seed, patient_case[1])} :
           /\ red_flags' = flags
           /\ requires_emergency' = (Len(flags) > 0)
    /\ pc' = "screened"
    /\ UNCHANGED <<hash_seed, settings, patient_case, standardized_symptoms, query_embedding,
                   common_candidates, rare_candidates, ranked_diagnoses, condition_lookups,
                   history, result, error, calls, provider_failures, unitVars>>

NextScreen == Screen

SpecScreen == InitScreen /\ [][NextScreen]_vars

\* ------------------------------------------- the tier classifier on its own
\* confidences at, just below and just above each default threshold, and the ends
ConfGrid ==
    {0, ConfOne} \cup
    UNION {{t - 1, t, t + 1} : t \in {tier1_confidence_threshold,
                                      tier2_confidence_threshold,
                                      tier3_confidence_threshold}}

\* configured thresholds: Settings validates neither their range nor their order
ThresholdChoices ==
    [tier1 : {tier1_confidence_threshold, tier2_confidence_threshold, tier3_confidence_threshold},
     tier2 : {tier1_confidence_threshold, tier2_confidence_threshold, tier3_confidence_threshold},
     tier3 : {tier1_confidence_threshold, tier2_confidence_threshold, tier3_confidence_threshold}]

InitTier ==
    /\ hash_seed = 0
    /\ settings \in [thresholds : ThresholdChoices,
                     top_k_candidates : {top_k_candidates},
                     final_results_limit : {MaxLimit},
                     enable_rare_disease_detection : {TRUE}]
    /\ pc = "classify"
    /\ patient_case = Nothing
    /\ red_flags = <<>>
    /\ requires_emergency = FALSE
    /\ standardized_symptoms = <<>>
    /\ query_embedding = Nothing
    /\ common_candidates = <<>>
    /\ rare_candidates = <<>>
    /\ ranked_diagnoses = <<>>
    /\ condition_lookups = <<>>
    /\ uuids_issued = 0
    /\ first_result = Nothing
    /\ result = Nothing
    /\ error = None
    /\ calls = <<>>
    /\ provider_failures = <<>>
    /\ tier_in \in [c1 : ConfGrid, c2 : ConfGrid, emergency : BOOLEAN]
    /\ tier_out = Nothing
    /\ score_in = NoScoreInput
    /\ score_out = Nothing
    /\ NoRoute
    /\ ApartIdle

\* _determine_review_tier applied to two confidences under the same settings
Classify ==
    /\ pc = "classify"
    /\ tier_out' = Some([t1 |-> determine_review_tier(settings.thresholds, tier_in.c1, tier_in.emergency),
                         t2 |-> determine_review_tier(settings.thresholds, tier_in.c2, tier_in.emergency)])
    /\ pc' = "classified"
    /\ UNCHANGED <<hash_seed, settings, patient_case, locals, history, result, error, calls,
                   provider_failures, tier_in, scoreVars, routeVars, apartVars>>

NextTier == Classify

SpecTier == InitTier /\ [][NextTier]_vars

\* ------------------------------------------------------ the scorer on its own
\* prevalences given to the scorer: the ends of [0,1], the prevalences of the
\* knowledge base, and 0.1 (where the prevalence factor reaches 1.0) with its
\* neighbours
PrevalenceGrid == {0, 1, 10, 1000, 2000, 99999, 100000, 100001, 150000, 200000, 500000, PrevOne}

\* MedicalCondition values given to the scorer
ScoredConditions ==
    {[condition_id |-> "cond_x", prevalence |-> p, is_rare_disease |-> r,
      recommended_tests |-> <<>>, specialist_referral |-> None] :
        p \in PrevalenceGrid, r \in BOOLEAN}

\* no request is in progress
NoRequest ==
    /\ hash_seed = 0
    /\ settings \in [thresholds : {DefaultThresholds},
                     top_k_candidates : {top_k_candidates},
                     final_results_limit : {MaxLimit},
                     enable_rare_disease_detection : {TRUE}]
    /\ patient_case = Nothing
    /\ red_flags = <<>>
    /\ requires_emergency = FALSE
    /\ standardized_symptoms = <<>>
    /\ query_embedding = Nothing
    /\ common_candidates = <<>>
    /\ rare_candidates = <<>>
    /\ ranked_diagnoses = <<>>
    /\ condition_lookups = <<>>
    /\ uuids_issued = 0
    /\ first_result = Nothing
    /\ result = Nothing
    /\ error = None
    /\ calls = <<>>
    /\ provider_failures = <<>>

InitScore ==
    /\ NoRequest
    /\ pc = "score"
    /\ tier_in = NoTierInput
    /\ tier_out = Nothing
    /\ score_in \in [condition : ScoredConditions, score : 0..SimOne]
    /\ score_out = Nothing
    /\ NoRoute
    /\ ApartIdle

\* the body of the loop of _rank_and_score_diagnoses for one candidate: the
\* confidence, then the probability, whose division raises ZeroDivisionError
\* when its denominator is 0
Score ==
    /\ pc = "score"
    /\ \E confidence \in {calculate_confidence(score_in.condition, score_in.score)} :
       \E probability \in {calculate_probability(score_in.condition, score_in.score)} :
           score_out' = Some([confidence_score |-> confidence,
                              probability |-> probability,
                              raised |-> IF probability[2] = 0 THEN "ZeroDivisionError" ELSE None])
    /\ pc' = "scored"
    /\ UNCHANGED <<hash_seed, settings, patient_case, locals, history, result, error, calls,
                   provider_failures, tierVars, score_in, routeVars, apartVars>>

NextScore == Score

SpecScore == InitScore /\ [][NextScore]_vars


\* ------------------------------------ concurrent calls on one DiagnosticService
Callers == 1..MaxCallers

\* a second case, whose complaint and symptom differ from FeverCase's
ChestPainCase ==
    [case_id |-> "case_002", age |-> 35, chief_complaint |-> ChestPain,
     symptoms |-> <<[description |-> SevereChestPain, severity |-> "MODERATE",
                     duration_days |-> Nothing, location |-> Some(<<"c","h","e","s","t">>)]>>]

CallerCases == {FeverCase, ChestPainCase}

\* contents the collection can have
Collections == { {}, {"cond_001", "cond_003"}, {"cond_001", "cond_002", "cond_003"} }

\* the cosine similarity the index computes between a stored point and a query
\* vector: a function of the two, here told apart by the query's chief complaint
Similarity(condition_id, query_vector) ==
    IF query_vector.of[1] = Fever
    THEN CASE condition_id = "cond_001" -> 95
           [] condition_id = "cond_002" -> 45
           [] condition_id = "cond_003" -> 55
    ELSE CASE condition_id = "cond_001" -> 55
           [] condition_id = "cond_002" -> 95
           [] condition_id = "cond_003" -> 95

\* scored points in the order client.search returns them: best score first
RECURSIVE SortedByScore(_)
SortedByScore(hits) ==
    IF hits = {} THEN <<>>
    ELSE LET best == CHOOSE h \in hits : \A g \in hits : h.score >= g.score
         IN  <<best>> \o SortedByScore(hits \ {best})

\* what client.search returns from a given collection: a function of the
\* collection and of the arguments of the call
IndexAnswer(coll, query_vector, limit, score_threshold, filters) ==
    LET hits == {h \in {[payload |-> Payload(c), score |-> Similarity(c.condition_id, query_vector)] :
                          c \in {d \in Conditions : d.condition_id \in coll}} :
                    MatchesFilter(h.payload, filters) /\ h.score >= score_threshold}
    IN  Take(SortedByScore(hits), limit)

\* analyze_patient_case run alone on an initialized service: the result it
\* returns, or nothing when it raises
AnalyzeAlone(seed, cfg, coll, case) ==
    LET flags == detect_red_flags(seed, case)
        symptoms == extract_symptoms(case)
        query == ConstellationVector(symptoms, calculate_symptom_weights(symptoms))
        common == vs_search([ok |-> TRUE, exc |-> None,
                             hits |-> IndexAnswer(coll, query, cfg.top_k_candidates, 50, CommonFilter)]).value
        rare == IF cfg.enable_rare_disease_detection
                THEN vs_search([ok |-> TRUE, exc |-> None,
                                hits |-> IndexAnswer(coll, query, rare_limit, 60, RareFilter)]).value
                ELSE <<>>
    IN  IF ScoringRaises(common \o rare) THEN Nothing
        ELSE LET ranked == rank_and_score_diagnoses(common \o rare)
                 lookups == [i \in 1..Min(3, Len(ranked)) |-> Some(ConditionById(ranked[i].condition_id))]
                 recs == generate_recommendations(seed, ranked, lookups)
             IN  Some(BuildResult(0, case.case_id, cfg, ranked, rare, flags, Len(flags) > 0, recs))

\* the locals of a call that has just been entered
EnteredCall(case) ==
    [pc |-> "encode", patient_case |-> case, red_flags |-> <<>>, requires_emergency |-> FALSE,
     standardized_symptoms |-> <<>>, query_embedding |-> Nothing,
     common_candidates |-> <<>>, rare_candidates |-> <<>>, ranked_diagnoses |-> <<>>,
     ran_initialize |-> FALSE, result |-> Nothing]

\* the engine's steps read the query vector of whichever call has encoded one
CallerQuery_any(w) ==
    callers[CHOOSE v \in Callers : callers[v].query_embedding # Nothing].query_embedding[1]

\* the query vector a call passes to its searches: its own local
CallerQuery(w) == callers[w].query_embedding[1]

\* several calls have been entered on one service, which initialize() has or
\* has not been run on
InitConcurrent ==
    /\ hash_seed \in HashSeeds
    /\ settings \in [thresholds : {DefaultThresholds},
                     top_k_candidates : {top_k_candidates},
                     final_results_limit : {MaxLimit},
                     enable_rare_disease_detection : BOOLEAN]
    /\ pc = "serving"
    /\ patient_case = Nothing
    /\ red_flags = <<>>
    /\ requires_emergency = FALSE
    /\ standardized_symptoms = <<>>
    /\ query_embedding = Nothing
    /\ common_candidates = <<>>
    /\ rare_candidates = <<>>
    /\ ranked_diagnoses = <<>>
    /\ condition_lookups = <<>>
    /\ uuids_issued = 0
    /\ first_result = Nothing
    /\ result = Nothing
    /\ error = None
    /\ calls = <<>>
    /\ provider_failures = <<>>
    /\ tier_in = NoTierInput
    /\ tier_out = Nothing
    /\ score_in = NoScoreInput
    /\ score_out = Nothing
    /\ NoRoute
    /\ NoEncoder
    /\ NoCompare
    /\ NoContainer
    /\ NoBreaker
    /\ service \in [model : BOOLEAN, client : BOOLEAN]
    /\ collection \in Collections
    /\ callers \in {[w \in Callers |-> EnteredCall(cases[w])] : cases \in [Callers -> CallerCases]}

\* steps 1-3 of call w; EmbeddingService.encode loads the model first when
\* self.model is None
CallerEncode(w) ==
    /\ callers[w].pc = "encode"
    /\ \E flags \in {detect_red_flags(hash_seed, callers[w].patient_case)} :
       \E symptoms \in {extract_symptoms(callers[w].patient_case)} :
       \E weights \in {calculate_symptom_weights(symptoms)} :
           callers' = [callers EXCEPT ![w] =
                          [@ EXCEPT !.red_flags = flags,
                                    !.requires_emergency = (Len(flags) > 0),
                                    !.standardized_symptoms = symptoms,
                                    !.query_embedding = Some(ConstellationVector(symptoms, weights)),
                                    !.ran_initialize = ~service.model,
                                    !.pc = "search_common"]]
    /\ service' = [service EXCEPT !.model = TRUE]
    /\ UNCHANGED <<hash_seed, settings, pc, patient_case, locals, history, result, error, calls,
                   provider_failures, tierVars, scoreVars, routeVars, collection,
                   encVars, cmpVars, containerVars, breakerVars>>

\* the search of one pass of call w; VectorStoreService.search connects first
\* when self.client is None
CallerSearch(w, limit, score_threshold, filters) ==
    vs_search([ok |-> TRUE, exc |-> None,
               hits |-> IndexAnswer(collection, CallerQuery(w), limit, score_threshold, filters)])

\* step 4, stage 1 of call w
CallerSearchCommon(w) ==
    /\ callers[w].pc = "search_common"
    /\ \E ret \in {CallerSearch(w, settings.top_k_candidates, 50, CommonFilter)} :
           callers' = [callers EXCEPT ![w] =
                          [@ EXCEPT !.common_candidates = ret.value,
                                    !.ran_initialize = @ \/ ~service.client,
                                    !.pc = IF settings.enable_rare_disease_detection
                                           THEN "search_rare" ELSE "rank"]]
    /\ service' = [service EXCEPT !.client = TRUE]
    /\ UNCHANGED <<hash_seed, settings, pc, patient_case, locals, history, result, error, calls,
                   provider_failures, tierVars, scoreVars, routeVars, collection,
                   encVars, cmpVars, containerVars, breakerVars>>

\* step 4, stage 2 of call w
CallerSearchRare(w) ==
    /\ callers[w].pc = "search_rare"
    /\ \E ret \in {CallerSearch(w, rare_limit, 60, RareFilter)} :
           callers' = [callers EXCEPT ![w] =
                          [@ EXCEPT !.rare_candidates = ret.value,
                                    !.ran_initialize = @ \/ ~service.client,
                                    !.pc = "rank"]]
    /\ service' = [service EXCEPT !.client = TRUE]
    /\ UNCHANGED <<hash_seed, settings, pc, patient_case, locals, history, result, error, calls,
                   provider_failures, tierVars, scoreVars, routeVars, collection,
                   encVars, cmpVars, containerVars, breakerVars>>

\* steps 5-9 of call w and its result
CallerRankAndBuild(w) ==
    /\ callers[w].pc = "rank"
    /\ \E all_candidates \in {callers[w].common_candidates \o callers[w].rare_candidates} :
       IF ScoringRaises(all_candidates)
       THEN /\ callers' = [callers EXCEPT ![w] = [@ EXCEPT !.pc = "raised"]]
            /\ UNCHANGED uuids_issued
       ELSE \E ranked \in {rank_and_score_diagnoses(all_candidates)} :
            \E lookups \in {[i \in 1..Min(3, Len(ranked)) |-> Some(ConditionById(ranked[i].condition_id))]} :
            \E recs \in {generate_recommendations(hash_seed, ranked, lookups)} :
                /\ callers' = [callers EXCEPT ![w] =
                       [@ EXCEPT !.ranked_diagnoses = ranked,
                                 !.result = Some(BuildResult(uuids_issued + 1,
                                                             callers[w].patient_case.case_id, settings,
                                                             ranked, callers[w].rare_candidates,
                                                             callers[w].red_flags,
                                                             callers[w].requires_emergency, recs)),
                                 !.pc = "done"]]
                /\ uuids_issued' = uuids_issued + 1
    /\ UNCHANGED <<hash_seed, settings, pc, patient_case, locals, first_result, result, error, calls,
                   provider_failures, tierVars, scoreVars, routeVars, service, collection,
                   encVars, cmpVars, containerVars, breakerVars>>

NextConcurrent ==
    \E w \in Callers :
        \/ CallerEncode(w)
        \/ CallerSearchCommon(w)
        \/ CallerSearchRare(w)
        \/ CallerRankAndBuild(w)

SpecConcurrent == InitConcurrent /\ [][NextConcurrent]_vars


\* ------------------------------------------ the constellation encoder on its own
\* Vectors have two components.  Embeddings are in fifths, so that unit vectors
\* with both components non-zero are exact; the encoder's output is in
\* thousandths.
EmbOne == 5             \* 1.0 in an embedding component
OutOne == 1000          \* 1.0 in an output component
MeanDen == 6            \* the mean is held in units of 1/(EmbOne * MeanDen), exact for up to 3 descriptors
NormScale == 100        \* digits kept by the square root of the norm

\* EmbeddingService.encode(text, normalize=True) for each descriptor text: the
\* model's L2-normalised sentence embedding
DescriptorEmbedding ==
    [fever    |-> <<5, 0>>,
     cough    |-> <<0, 5>>,
     chills   |-> <<4, 3>>,
     wheeze   |-> <<3, 4>>,
     afebrile |-> <<-5, 0>>,
     eupnoea  |-> <<-3, -4>>]

DescriptorTexts == DOMAIN DescriptorEmbedding

\* weights a caller passes: floats 0.0, 1.0, 2.0
WeightValues == {0, 1, 2}

\* floor of the square root of x, by bisection between lo and hi
RECURSIVE ISqrtIn(_, _, _)
ISqrtIn(x, lo, hi) ==
    IF lo = hi THEN lo
    ELSE LET mid == (lo + hi + 1) \div 2
         IN  IF mid * mid <= x THEN ISqrtIn(x, mid, hi) ELSE ISqrtIn(x, lo, mid - 1)

ISqrt(x) == ISqrtIn(x, 0, 46340)

\* component-wise sum of the first n vectors of vs
RECURSIVE VecSum(_, _)
VecSum(vs, n) ==
    IF n = 0 THEN <<0, 0>>
    ELSE LET rest == VecSum(vs, n - 1)
         IN  <<rest[1] + vs[n][1], rest[2] + vs[n][2]>>

\* the squared L2 norm of a vector
NormSquared(v) == v[1] * v[1] + v[2] * v[2]

\* EmbeddingService.encode_symptom_constellation: ValueError for an empty
\* list or a weight list of another length; otherwise the embeddings times
\* their weights, the mean, and the mean divided by its norm.  numpy divides
\* 0.0 by 0.0 into nan without raising.
encode_symptom_constellation(symptoms, weights) ==
    IF symptoms = <<>> THEN [raised |-> "ValueError", nan |-> FALSE, vector |-> <<0, 0>>]
    ELSE IF weights # Nothing /\ Len(weights[1]) # Len(symptoms)
    THEN [raised |-> "ValueError", nan |-> FALSE, vector |-> <<0, 0>>]
    ELSE LET weighted == [i \in 1..Len(symptoms) |->
                            LET e == DescriptorEmbedding[symptoms[i]]
                                w == IF weights = Nothing THEN 1 ELSE weights[1][i]
                            IN  <<e[1] * w, e[2] * w>>]
             total == VecSum(weighted, Len(weighted))
             mean == <<(total[1] * MeanDen) \div Len(symptoms), (total[2] * MeanDen) \div Len(symptoms)>>
             norm == ISqrt(NormSquared(mean) * NormScale * NormScale)
         IN  IF norm = 0 THEN [raised |-> None, nan |-> TRUE, vector |-> <<0, 0>>]
             ELSE [raised |-> None, nan |-> FALSE,
                   vector |-> <<(mean[1] * NormScale * OutOne) \div norm,
                                (mean[2] * NormScale * OutOne) \div norm>>]

\* descriptor lists and weights given to the encoder: weights absent, or one
\* weight per descriptor, or a list of another length
InitEncoder ==
    /\ PipelineIdle
    /\ NoCallers
    /\ NoCompare
    /\ NoContainer
    /\ NoBreaker
    /\ enc_in \in {Some([symptoms |-> s, weights |-> w]) :
                     s \in UNION {[1..n -> DescriptorTexts] : n \in 0..MaxDescriptors},
                     w \in {Nothing} \cup {Some(ws) : ws \in UNION {[1..n -> WeightValues] : n \in 1..MaxDescriptors}}}
    /\ enc_out = Nothing

EncodeConstellation ==
    /\ enc_in # Nothing
    /\ enc_out = Nothing
    /\ enc_out' = Some(encode_symptom_constellation(enc_in[1].symptoms, enc_in[1].weights))
    /\ UNCHANGED <<pipelineVars, concVars, enc_in, cmpVars, containerVars, breakerVars>>

NextEncoder == EncodeConstellation

SpecEncoder == InitEncoder /\ [][NextEncoder]_vars


\* --------------------------------------------- the symptom comparison on its own
\* does a condition symptom match a patient descriptor: the `if` of the inner loop
SymptomMatches_case_sensitive(cond_symptom, patient_symptom) ==
    \/ Contains(patient_symptom, cond_symptom)
    \/ Contains(cond_symptom, patient_symptom)

\* does a condition symptom match a patient descriptor: the `if` of the inner loop
SymptomMatches(cond_symptom, patient_symptom) ==
    \/ Contains(Lower(patient_symptom), Lower(cond_symptom))
    \/ Contains(Lower(cond_symptom), Lower(patient_symptom))

\* the outer loop of _compare_symptoms over the first n condition symptoms
RECURSIVE MatchingLoop(_, _, _)
MatchingLoop(all_condition_symptoms, patient_symptoms, n) ==
    IF n = 0 THEN <<>>
    ELSE LET matching == MatchingLoop(all_condition_symptoms, patient_symptoms, n - 1)
             cond_symptom == all_condition_symptoms[n]
         IN  IF /\ \E i \in 1..Len(patient_symptoms) : SymptomMatches(cond_symptom, patient_symptoms[i])
                /\ cond_symptom \notin Range(matching)
             THEN Append(matching, cond_symptom)
             ELSE matching

\* DiagnosticService._compare_symptoms
compare_symptoms(patient_symptoms, typical_symptoms, rare_symptoms) ==
    LET all_condition_symptoms == typical_symptoms \o rare_symptoms
        matching == MatchingLoop(all_condition_symptoms, patient_symptoms, Len(all_condition_symptoms))
        missing == SelectSeq(all_condition_symptoms, LAMBDA s : s \notin Range(matching))
    IN  [matching |-> Take(matching, 5), missing |-> Take(missing, 3)]

\* patient descriptors, as _extract_symptoms produces them
PatientDescriptors ==
    { <<"f","e","v","e","r">>, <<"D","R","Y"," ","C","O","U","G","H">>, <<"c","h","e","s","t"," ","p","a","i","n">>, <<"f","e","v","e","r",","," ","c","o","u","g","h",","," ","r","a","s","h",","," ","i","t","c","h"," ","a","n","d"," ","c","h","e","s","t"," ","p","a","i","n">>, <<>> }

\* typical_symptoms lists of conditions
TypicalLists ==
    { <<>>,
      <<<<"F","e","v","e","r">>, <<"C","o","u","g","h">>>>,
      <<<<"F","e","v","e","r">>, <<"C","o","u","g","h">>, <<"R","a","s","h">>, <<"P","a","i","n">>, <<"C","h","e","s","t"," ","p","a","i","n">>, <<"I","t","c","h">>, <<"f","e","v","e","r">>>>,
      <<<<"N","i","g","h","t"," ","s","w","e","a","t","s">>, <<"W","e","i","g","h","t"," ","l","o","s","s">>, <<"F","a","t","i","g","u","e">>, <<"N","a","u","s","e","a">>, <<"F","e","v","e","r">>>> }

\* rare_symptoms lists of conditions
RareLists ==
    { <<>>,
      <<<<"C","o","u","g","h">>>>,
      <<<<"N","i","g","h","t"," ","s","w","e","a","t","s">>, <<"W","e","i","g","h","t"," ","l","o","s","s">>, <<"F","a","t","i","g","u","e">>, <<"N","a","u","s","e","a">>>> }

InitCompare ==
    /\ PipelineIdle
    /\ NoCallers
    /\ NoEncoder
    /\ NoContainer
    /\ NoBreaker
    /\ cmp_in \in {Some([patient_symptoms |-> p, typical_symptoms |-> t, rare_symptoms |-> r]) :
                     p \in UNION {[1..n -> PatientDescriptors] : n \in 0..MaxPatientDescriptors},
                     t \in TypicalLists, r \in RareLists}
    /\ cmp_out = Nothing

CompareSymptoms ==
    /\ cmp_in # Nothing
    /\ cmp_out = Nothing
    /\ cmp_out' = Some(compare_symptoms(cmp_in[1].patient_symptoms, cmp_in[1].typical_symptoms,
                                        cmp_in[1].rare_symptoms))
    /\ UNCHANGED <<pipelineVars, concVars, encVars, cmp_in, containerVars, breakerVars>>

NextCompare == CompareSymptoms

SpecCompare == InitCompare /\ [][NextCompare]_vars


\* ------------------------------------------------------- the service container
\* DiagnosticService instances are named by the order of their construction;
\* container.initialized holds those whose initialize() has returned.
Threads == 1..MaxThreads

\* a thread that has just called get_diagnostic_service
EnteredThread == [pc |-> "check", returned |-> Nothing, initialized_on_return |-> FALSE]

\* the class as the class statement leaves it, and the threads that call
\* get_diagnostic_service at the same time
InitContainer ==
    /\ PipelineIdle
    /\ NoCallers
    /\ NoEncoder
    /\ NoCompare
    /\ NoBreaker
    /\ container = [diagnostic_service |-> Nothing, constructed |-> 0, initialized |-> {}]
    /\ threads \in {[t \in 1..n |-> EnteredThread] : n \in 1..MaxThreads}

\* `if cls._diagnostic_service is None:`
ThreadCheck(t) ==
    /\ threads[t].pc = "check"
    /\ threads' = [threads EXCEPT ![t].pc =
                      IF container.diagnostic_service = Nothing THEN "construct" ELSE "return"]
    /\ UNCHANGED <<pipelineVars, concVars, encVars, cmpVars, container, breakerVars>>

\* `cls._diagnostic_service = DiagnosticService()`
ThreadConstruct(t) ==
    /\ threads[t].pc = "construct"
    /\ container' = [container EXCEPT !.constructed = @ + 1,
                                      !.diagnostic_service = Some(container.constructed + 1)]
    /\ threads' = [threads EXCEPT ![t].pc = "initialize"]
    /\ UNCHANGED <<pipelineVars, concVars, encVars, cmpVars, breakerVars>>

\* `cls._diagnostic_service.initialize()`, on the instance the class attribute
\* holds now; it returns, or raises what loading the model or connecting to
\* the index raised
ThreadInitialize(t) ==
    /\ threads[t].pc = "initialize"
    /\ \/ /\ container' = [container EXCEPT !.initialized = @ \cup {container.diagnostic_service[1]}]
          /\ threads' = [threads EXCEPT ![t].pc = "return"]
       \/ /\ threads' = [threads EXCEPT ![t].pc = "raised"]
          /\ UNCHANGED container
    /\ UNCHANGED <<pipelineVars, concVars, encVars, cmpVars, breakerVars>>

\* `return cls._diagnostic_service`
ThreadReturn(t) ==
    /\ threads[t].pc = "return"
    /\ threads' = [threads EXCEPT ![t] =
                      [pc |-> "returned",
                       returned |-> container.diagnostic_service,
                       initialized_on_return |-> container.diagnostic_service[1] \in container.initialized]]
    /\ UNCHANGED <<pipelineVars, concVars, encVars, cmpVars, container, breakerVars>>

NextContainer ==
    \E t \in DOMAIN threads :
        \/ ThreadCheck(t)
        \/ ThreadConstruct(t)
        \/ ThreadInitialize(t)
        \/ ThreadReturn(t)

SpecContainer == InitContainer /\ [][NextContainer]_vars


\* --------------------------------------------------------- the circuit breaker
\* what the wrapped function can do: return, or raise one of these.
\* ConnectionError and ValueError derive from Exception; asyncio.CancelledError
\* derives from BaseException only and reaches a coroutine that is cancelled.
FuncExceptions == {"ConnectionError", "ValueError"}
FuncOutcomes == {"returns"} \cup FuncExceptions
AsyncFuncOutcomes == FuncOutcomes \cup {"CancelledError"}

\* does `except self.expected_exceptions` catch exc
IsExpected(b, exc) ==
    \/ exc \in b.expected_exceptions
    \/ "Exception" \in b.expected_exceptions /\ exc \in FuncExceptions

\* CircuitBreaker.__init__
NewBreaker(failure_threshold, recovery_timeout, expected_exceptions) ==
    [failure_threshold |-> failure_threshold,
     recovery_timeout |-> recovery_timeout,
     expected_exceptions |-> expected_exceptions,
     failure_count |-> 0,
     last_failure_time |-> Nothing,
     state |-> "closed"]

\* CircuitBreaker._record_success
record_success(b) == [b EXCEPT !.failure_count = 0, !.state = "closed"]

\* CircuitBreaker._record_failure at time now
record_failure(b, now) ==
    [b EXCEPT !.failure_count = @ + 1,
              !.last_failure_time = Some(now),
              !.state = IF b.failure_count + 1 >= b.failure_threshold THEN "open" ELSE @]

\* a reset attempted whenever the breaker is open
should_attempt_reset_at_once(b, now) ==
    b.state = "open"

\* CircuitBreaker._should_attempt_reset at time now
should_attempt_reset(b, now) ==
    IF b.state # "open" THEN FALSE
    ELSE IF b.last_failure_time = Nothing THEN TRUE
    ELSE now - b.last_failure_time[1] >= b.recovery_timeout

\* the first statement of call and call_async: the breaker afterwards, and
\* whether the wrapped function is to be invoked
Gate(b, now) ==
    IF b.state = "open"
    THEN IF should_attempt_reset(b, now)
         THEN [breaker |-> [b EXCEPT !.state = "half_open"], admitted |-> TRUE]
         ELSE [breaker |-> b, admitted |-> FALSE]
    ELSE [breaker |-> b, admitted |-> TRUE]

\* the try statement of call and call_async once the wrapped function has
\* returned or raised
AfterFunc(b, outcome, now) ==
    IF outcome = "returns"
    THEN IF b.state = "half_open" THEN record_success(b) ELSE b
    ELSE IF IsExpected(b, outcome) THEN record_failure(b, now)
    ELSE b

\* what is noted of a call when it enters call / call_async
CallEntry(kind, b, now) ==
    [kind |-> kind,
     state_at_entry |-> b.state,
     count_at_entry |-> b.failure_count,
     timeout_elapsed |-> (b.last_failure_time = Nothing
                            \/ now - b.last_failure_time[1] >= b.recovery_timeout)]

\* the note of a call that is inside the wrapped function
Running(entry) ==
    [kind |-> entry.kind, state_at_entry |-> entry.state_at_entry,
     count_at_entry |-> entry.count_at_entry, timeout_elapsed |-> entry.timeout_elapsed,
     running |-> TRUE, invoked |-> TRUE, outcome |-> None,
     state_at_exit |-> None, count_at_exit |-> 0]

\* the note of a call that has finished
Finished(entry, invoked, outcome, b) ==
    [kind |-> entry.kind, state_at_entry |-> entry.state_at_entry,
     count_at_entry |-> entry.count_at_entry, timeout_elapsed |-> entry.timeout_elapsed,
     running |-> FALSE, invoked |-> invoked, outcome |-> outcome,
     state_at_exit |-> b.state, count_at_exit |-> b.failure_count]

\* a breaker as constructed: thresholds of 1 and 2 failures, a recovery
\* timeout of 2 seconds, the default expected_exceptions or a narrower tuple
InitBreaker ==
    /\ PipelineIdle
    /\ NoCallers
    /\ NoEncoder
    /\ NoCompare
    /\ NoContainer
    /\ breaker \in {Some(NewBreaker(th, 2, ex)) : th \in {1, 2}, ex \in {{"Exception"}, {"ConnectionError"}}}
    /\ clock = 0
    /\ breaker_calls = <<>>

\* a second of time passes
Tick ==
    /\ breaker # Nothing
    /\ clock < MaxClock
    /\ clock' = clock + 1
    /\ UNCHANGED <<pipelineVars, concVars, encVars, cmpVars, containerVars, breaker, breaker_calls>>

\* CircuitBreaker.call, from entry to return or raise
BreakerCall ==
    /\ breaker # Nothing
    /\ Len(breaker_calls) < MaxBreakerCalls
    /\ \E entry \in {CallEntry("call", breaker[1], clock)}, gate \in {Gate(breaker[1], clock)} :
          IF ~gate.admitted
          THEN /\ breaker' = Some(gate.breaker)
               /\ breaker_calls' = Append(breaker_calls,
                                          Finished(entry, FALSE, "CircuitBreakerError", gate.breaker))
          ELSE \E outcome \in FuncOutcomes :
               \E after \in {AfterFunc(gate.breaker, outcome, clock)} :
                   /\ breaker' = Some(after)
                   /\ breaker_calls' = Append(breaker_calls, Finished(entry, TRUE, outcome, after))
    /\ UNCHANGED <<pipelineVars, concVars, encVars, cmpVars, containerVars, clock>>

\* CircuitBreaker.call_async up to `await func(...)`, or to its raise
BreakerCallAsyncBegin ==
    /\ breaker # Nothing
    /\ Len(breaker_calls) < MaxBreakerCalls
    /\ \E entry \in {CallEntry("call_async", breaker[1], clock)}, gate \in {Gate(breaker[1], clock)} :
          /\ breaker' = Some(gate.breaker)
          /\ breaker_calls' = Append(breaker_calls,
                                     IF gate.admitted THEN Running(entry)
                                     ELSE Finished(entry, FALSE, "CircuitBreakerError", gate.breaker))
    /\ UNCHANGED <<pipelineVars, concVars, encVars, cmpVars, containerVars, clock>>

\* CircuitBreaker.call_async from the end of the await to return or raise
BreakerCallAsyncEnd ==
    /\ breaker # Nothing
    /\ \E i \in 1..Len(breaker_calls), outcome \in AsyncFuncOutcomes :
          /\ breaker_calls[i].running
          /\ \E after \in {AfterFunc(breaker[1], outcome, clock)} :
                /\ breaker' = Some(after)
                /\ breaker_calls' = [breaker_calls EXCEPT ![i] = Finished(@, TRUE, outcome, after)]
    /\ UNCHANGED <<pipelineVars, concVars, encVars, cmpVars, containerVars, clock>>

NextBreaker ==
    \/ Tick
    \/ BreakerCall
    \/ BreakerCallAsyncBegin
    \/ BreakerCallAsyncEnd

SpecBreaker == InitBreaker /\ [][NextBreaker]_vars

\* ================================================================= claims
MaxSymptomCount == 50   \* the symptom-count limit the tests name

\* the case under analysis has a symptom of severity critical
HasCriticalSymptom ==
    \E i \in 1..Len(patient_case[1].symptoms) : patient_case[1].symptoms[i].severity = "CRITICAL"

\* `text`, lower-cased, contains one of the emergency keywords
MentionsKeyword(text) ==
    \E low \in {Lower(text)} : \E i \in 1..Len(red_flag_keywords) : Contains(low, red_flag_keywords[i])

\* some symptom description of the case under analysis mentions a keyword
SymptomMentionsKeyword ==
    \E i \in 1..Len(patient_case[1].symptoms) : MentionsKeyword(patient_case[1].symptoms[i].description)

\* the top-ranked diagnosis exists and its confidence is at least the Tier-1 threshold
TopClearsTier1 ==
    /\ ranked_diagnoses # <<>>
    /\ ranked_diagnoses[1].confidence_score >= settings.thresholds.tier1

\* C1: every returned DiagnosticResult whose requires_emergency_care is true
\* has review tier Tier 1, whatever its overall confidence.
C1_EmergencyIsTier1 ==
    (result # Nothing /\ result[1].requires_emergency_care)
        => result[1].review_tier = "TIER1_AUTOMATED"

\* an emergency result with confidence 0.0 and an empty ranked list, in Tier 1
C1_Witness ==
    /\ result # Nothing
    /\ result[1].requires_emergency_care
    /\ result[1].overall_confidence = 0
    /\ result[1].differential_diagnoses = <<>>
    /\ ranked_diagnoses = <<>>
    /\ result[1].review_tier = "TIER1_AUTOMATED"

\* C2: once the red-flag screen has run on a case that has a critical symptom,
\* or whose chief complaint or a symptom description contains an emergency
\* keyword in any letter case, the flag list is non-empty and the emergency
\* flag is true, in the locals and in the result.
C2_RedFlagsRaised ==
    (/\ pc \in {"search_common", "search_rare", "rank", "raised", "done"}
     /\ calls # <<>>
     /\ \/ HasCriticalSymptom
        \/ MentionsKeyword(patient_case[1].chief_complaint)
        \/ SymptomMentionsKeyword)
        => /\ red_flags # <<>>
           /\ requires_emergency
           /\ result # Nothing => /\ result[1].red_flags_detected # <<>>
                                  /\ result[1].requires_emergency_care

\* a result for a case whose only trigger is the capitalised complaint "Chest pain"
C2_Witness ==
    /\ result # Nothing
    /\ patient_case[1].chief_complaint = ChestPain
    /\ patient_case[1].symptoms # <<>>
    /\ ~HasCriticalSymptom
    /\ ~SymptomMentionsKeyword
    /\ result[1].requires_emergency_care
    /\ result[1].red_flags_detected = << <<"c","h","e","s","t"," ","p","a","i","n">> >>

C4_TierMonotonic ==
    (tier_out # Nothing /\ ~tier_in.emergency /\ tier_in.c1 <= tier_in.c2)
        => TierNumber(tier_out[1].t2) <= TierNumber(tier_out[1].t1)

\* two confidences c1 < c2 that land in different tiers under thresholds
\* configured out of order
C4_Witness ==
    /\ tier_out # Nothing
    /\ ~tier_in.emergency
    /\ settings.thresholds.tier1 < settings.thresholds.tier2
    /\ tier_in.c1 < tier_in.c2
    /\ TierNumber(tier_out[1].t2) < TierNumber(tier_out[1].t1)

\* C5: a PatientCase whose symptom list is empty or longer than 50 is rejected
\* with an input error: it never becomes a case, no provider call is made for
\* it and no result is produced.
C5_InvalidCountRejected ==
    (/\ patient_case # Nothing
     /\ \/ Len(patient_case[1].symptoms) = 0
        \/ Len(patient_case[1].symptoms) > MaxSymptomCount)
        => /\ error = "ValidationError"
           /\ calls = <<>>
           /\ result = Nothing

\* C6: when the embedding call or a search call raises, the request ends with
\* that same exception at the caller, the failed call is the last provider
\* call made, nothing is ranked and no result is returned.
C6_ProviderErrorPropagates ==
    \A i \in 1..Len(provider_failures) :
        provider_failures[i].op \in {"encode_symptom_constellation", "search"}
            => /\ pc = "raised"
               /\ error = provider_failures[i].exc
               /\ Len(provider_failures) = 1
               /\ calls[Len(calls)].op = provider_failures[i].op
               /\ ranked_diagnoses = <<>>
               /\ result = Nothing

\* the rare-disease search, third provider call of the request, timed out
C6_Witness ==
    /\ pc = "raised"
    /\ provider_failures = <<[op |-> "search", exc |-> "TimeoutError"]>>
    /\ Len(calls) = 3
    /\ common_candidates # <<>>
    /\ error = "TimeoutError"
    /\ result = Nothing

\* C7: an analysis never returns a DiagnosticResult after a provider call of
\* that analysis failed.
C7_NoSilentProviderFailure ==
    result # Nothing => provider_failures = <<>>

\* C8: in every returned result, primary_diagnosis is set exactly when the
\* ranked list is non-empty and its top confidence is at least the Tier-1
\* threshold, and is then the top diagnosis; an emergency case whose top
\* confidence is lower is in Tier 1 with no primary diagnosis.
C8_PrimaryIffTopClearsTier1 ==
    result # Nothing
        => /\ (result[1].primary_diagnosis # Nothing) = TopClearsTier1
           /\ TopClearsTier1 => result[1].primary_diagnosis = Some(ranked_diagnoses[1])
           /\ (result[1].requires_emergency_care /\ ~TopClearsTier1)
                 => /\ result[1].review_tier = "TIER1_AUTOMATED"
                    /\ result[1].primary_diagnosis = Nothing

\* an emergency result in Tier 1 with ranked diagnoses and no primary diagnosis
C8_Witness ==
    /\ result # Nothing
    /\ result[1].requires_emergency_care
    /\ result[1].review_tier = "TIER1_AUTOMATED"
    /\ ranked_diagnoses # <<>>
    /\ result[1].overall_confidence >= tier2_confidence_threshold
    /\ result[1].primary_diagnosis = Nothing

\* C9: in every returned result, under every configured final_results_limit, a
\* primary_diagnosis that is set is the first entry of differential_diagnoses
\* and overall_confidence is that entry's confidence.
C9_PrimaryIsFirstEntry ==
    (result # Nothing /\ result[1].primary_diagnosis # Nothing)
        => /\ result[1].differential_diagnoses # <<>>
           /\ result[1].differential_diagnoses[1] = result[1].primary_diagnosis[1]
           /\ result[1].overall_confidence = result[1].differential_diagnoses[1].confidence_score

C12_ConfidenceInUnitInterval ==
    score_out # Nothing
        => /\ score_out[1].confidence_score >= 0
           /\ score_out[1].confidence_score <= ConfOne

\* similarity 1.0 and prevalence 1.0, not rare: the confidence is exactly 1.0
C12_Witness ==
    /\ score_out # Nothing
    /\ score_in.score = SimOne
    /\ score_in.condition.prevalence = PrevOne
    /\ ~score_in.condition.is_rare_disease
    /\ score_out[1].confidence_score = ConfOne

\* C13: for every similarity s and prevalence p in [0,1] the confidence is
\* min(1, s * (0.9 + 0.1 * min(1, 10p)) * r), r = 0.9 for a rare disease and 1
\* otherwise; s = 0.9, p = 0.2, not rare gives 0.9, and s = 0.9, p = 0.00001,
\* rare gives about 0.729.
C13_ConfidenceFormula ==
    score_out # Nothing
        => LET s == score_in.score
               p == score_in.condition.prevalence
               rare == score_in.condition.is_rare_disease
               m == IF 10 * p < PrevOne THEN 10 * p ELSE PrevOne
               r10 == IF rare THEN 9 ELSE 10
               product == ((s * (9 * PrevOne + m)) \div 10) * r10
               c == score_out[1].confidence_score
           IN  /\ (s * (9 * PrevOne + m)) % 10 = 0
               /\ c = (IF product > ConfOne THEN ConfOne ELSE product)
               /\ (s = 90 /\ p = 200000 /\ ~rare) => c = 900000000
               /\ (s = 90 /\ p = 10 /\ rare) => (c > 728500000 /\ c < 729500000)

\* the second example: s = 0.9, p = 0.00001, rare, scored 0.7290081
C13_Witness ==
    /\ score_out # Nothing
    /\ score_in.score = 90
    /\ score_in.condition.prevalence = 10
    /\ score_in.condition.is_rare_disease
    /\ score_out[1].confidence_score = 729008100

\* C14: a candidate whose prevalence is missing or 0 never makes the analysis
\* raise, whatever its similarity: an analysis is aborted by a provider error
\* only, and in a result every retrieved candidate is ranked and those of
\* prevalence 0 have probability 0.
C14_ZeroPrevalenceScored ==
    /\ pc = "raised" => error \in ProviderErrors
    /\ result # Nothing
          => /\ Len(ranked_diagnoses) = Len(common_candidates) + Len(rare_candidates)
             /\ \A i \in 1..Len(ranked_diagnoses) :
                    ConditionById(ranked_diagnoses[i].condition_id).prevalence = 0
                        => ranked_diagnoses[i].probability[1] = 0

\* C15: when the same PatientCase has been analysed twice with providers that
\* answered alike, the two results are equal in every field but the
\* timestamps and the processing duration.
C15_SameResultTwice ==
    first_result # Nothing => result = first_result

\* C16: the red-flag list the screen returns holds no string more than once,
\* and the emergency flag is true exactly when the list is non-empty.
C16_FlagsDistinct ==
    /\ \A i, j \in 1..Len(red_flags) : i # j => red_flags[i] # red_flags[j]
    /\ requires_emergency = (red_flags # <<>>)

\* C17: whatever the embedding and index providers returned or raised, the
\* red flags and the emergency flag of an analysis are those the screen
\* computes from the PatientCase alone, in the locals and in the result.
C17_FlagsIndependentOfRetrieval ==
    (patient_case # Nothing /\ calls # <<>>)
        => \A flags \in {detect_red_flags(hash_seed, patient_case[1])} :
               /\ red_flags = flags
               /\ requires_emergency = (flags # <<>>)
               /\ result # Nothing
                     => /\ result[1].red_flags_detected = flags
                        /\ result[1].requires_emergency_care = (flags # <<>>)

\* a case without red flags whose retrieval returned nothing and whose
\* result asks for no emergency care
C17_Witness ==
    /\ result # Nothing
    /\ patient_case[1].symptoms # <<>>
    /\ ranked_diagnoses = <<>>
    /\ result[1].red_flags_detected = <<>>
    /\ ~result[1].requires_emergency_care

\* is sub[i..] a subsequence of lst[j..], entries in the same order
RECURSIVE IsSublistFrom(_, _, _, _)
IsSublistFrom(sub, i, lst, j) ==
    IF i > Len(sub) THEN TRUE
    ELSE IF j > Len(lst) THEN FALSE
    ELSE IF sub[i] = lst[j] THEN IsSublistFrom(sub, i + 1, lst, j + 1)
    ELSE IsSublistFrom(sub, i, lst, j + 1)

\* the identifiers the rare-disease pass of this analysis returned
RarePassIds == {rare_candidates[i].condition.condition_id : i \in 1..Len(rare_candidates)}

\* C18 as stated: in every returned result, rare_diseases_considered has at
\* most 5 entries, in ranked order, is a sublist of the returned
\* differential_diagnoses, and holds only diagnoses whose identifier the
\* rare-disease pass returned.
C18_RareSublistOfReturned ==
    result # Nothing
        => \A rdc \in {result[1].rare_diseases_considered} :
               /\ Len(rdc) <= 5
               /\ IsSublistFrom(rdc, 1, result[1].differential_diagnoses, 1)
               /\ \A i \in 1..Len(rdc) : rdc[i].condition_id \in RarePassIds

\* C18, amended: in every returned result, rare_diseases_considered has at
\* most 5 entries, in ranked order, is a sublist of the whole ranked list of
\* the analysis (not of its truncation to final_results_limit), and holds
\* only diagnoses whose identifier the rare-disease pass returned.
C18_RareSublistOfRanked ==
    result # Nothing
        => \A rdc \in {result[1].rare_diseases_considered} :
               /\ Len(rdc) <= 5
               /\ IsSublistFrom(rdc, 1, ranked_diagnoses, 1)
               /\ \A i \in 1..Len(rdc) : rdc[i].condition_id \in RarePassIds

\* six rare diseases were ranked below a common condition: five of them are
\* listed, in ranked order, and the result returns two diagnoses
C18_Witness ==
    /\ result # Nothing
    /\ Len(rare_candidates) = 6
    /\ Len(ranked_diagnoses) = 7
    /\ ranked_diagnoses[1].condition_id = "cond_001"
    /\ Len(result[1].differential_diagnoses) = 2
    /\ Len(result[1].rare_diseases_considered) = 5
    /\ result[1].rare_diseases_considered = SubSeq(ranked_diagnoses, 2, 6)

\* the entries of seq[1..n], each kept at its first occurrence only
RECURSIVE FirstOccurrences(_, _)
FirstOccurrences(seq, n) ==
    IF n = 0 THEN <<>>
    ELSE LET front == FirstOccurrences(seq, n - 1)
         IN  IF \E i \in 1..Len(front) : front[i] = seq[n] THEN front ELSE Append(front, seq[n])

\* the recommended_next_steps lists of ranked[1..n], one after the other
RECURSIVE NextStepsOf(_, _)
NextStepsOf(ranked, n) ==
    IF n = 0 THEN <<>> ELSE NextStepsOf(ranked, n - 1) \o ranked[n].recommended_next_steps

\* the specialist referrals of the conditions of ranked[1..n], those that have one
RECURSIVE ReferralsOf(_, _)
ReferralsOf(ranked, n) ==
    IF n = 0 THEN <<>>
    ELSE LET referral == ConditionById(ranked[n].condition_id).specialist_referral
         IN  IF referral = None THEN ReferralsOf(ranked, n - 1)
             ELSE Append(ReferralsOf(ranked, n - 1), referral)

\* C19: in every returned result, recommended_tests is the first 5 distinct
\* strings, in first-occurrence order, of the recommended_next_steps of the 3
\* highest-ranked diagnoses, and recommended_specialists is the distinct
\* specialist referrals of their conditions, in first-occurrence order.
C19_RecommendationsInOrder ==
    result # Nothing
        => \A n \in {Min(3, Len(ranked_diagnoses))} :
           \A steps \in {NextStepsOf(ranked_diagnoses, n)} :
           \A referrals \in {ReferralsOf(ranked_diagnoses, n)} :
               /\ result[1].recommended_tests = Take(FirstOccurrences(steps, Len(steps)), 5)
               /\ result[1].recommended_specialists = FirstOccurrences(referrals, Len(referrals))

\* C20: when a route has answered a request whose analysis produced a
\* DiagnosticResult, exactly one audit record has been written, of action
\* type diagnostic_analysis, carrying the case id and the result id of that
\* result, whether or not the AI steps succeeded.
C20_OneAuditRecordPerResult ==
    (response # Nothing /\ result # Nothing)
        => /\ Len(audit_records) = 1
           /\ audit_records[1].action_type = "diagnostic_analysis"
           /\ audit_records[1].case_id = result[1].case_id
           /\ audit_records[1].result_id = result[1].result_id

\* a DiagnosticResult without its identifier, which is drawn afresh for every result
Content(r) == [r EXCEPT !.result_id = 0]

\* every call that has returned has returned what its case yields when
\* analysed alone
ResultsAsAlone ==
    \A w \in Callers :
        callers[w].pc = "done"
            => \E alone \in {AnalyzeAlone(hash_seed, settings, collection, callers[w].patient_case)} :
                   /\ alone # Nothing
                   /\ Content(callers[w].result[1]) = Content(alone[1])

\* C21 as stated: under every interleaving of the concurrent calls, each
\* call's result content is what its case yields alone, and no step of a call
\* writes a field of the service.
C21_CallsShareNothing ==
    [](ResultsAsAlone) /\ [][service' = service]_vars

\* C21, amended: the same, on a service whose model is loaded and whose index
\* client is connected.
C21_CallsShareNothingOnceInitialized ==
    [](ResultsAsAlone) /\ [][(service.model /\ service.client) => service' = service]_vars

\* two calls for different cases, interleaved on a service no call had to
\* initialize, have returned different results
C21_Witness ==
    /\ callers # <<>>
    /\ callers[1].pc = "done"
    /\ callers[2].pc = "done"
    /\ ~callers[1].ran_initialize
    /\ ~callers[2].ran_initialize
    /\ callers[1].patient_case # callers[2].patient_case
    /\ callers[1].result[1].differential_diagnoses # <<>>
    /\ Content(callers[1].result[1]) # Content(callers[2].result[1])

\* the precision of the output's fixed point, as a bound on |norm^2 - 1|
NormTolerance == 5000

\* C22: for every non-empty descriptor list with one weight per descriptor (or
\* no weights), the vector encode_symptom_constellation returns has L2 norm 1
\* within the arithmetic's precision.
C22_UnitNorm ==
    (enc_out # Nothing /\ enc_out[1].raised = None)
        => /\ ~enc_out[1].nan
           /\ NormSquared(enc_out[1].vector) >= OutOne * OutOne - NormTolerance
           /\ NormSquared(enc_out[1].vector) <= OutOne * OutOne + NormTolerance

\* the embedding and search calls among the first n provider calls, in order
RECURSIVE EngineCalls(_)
EngineCalls(n) ==
    IF n = 0 THEN <<>>
    ELSE IF calls[n].op = "retrieve" THEN EngineCalls(n - 1)
    ELSE Append(EngineCalls(n - 1), calls[n])

ScoredInRetrievalOrder ==
    [i \in 1..(Len(common_candidates) + Len(rare_candidates)) |->
        ScoreCandidate((common_candidates \o rare_candidates)[i])]

\* C24: in the ranked list of an analysis, the diagnoses of any one confidence
\* value appear in the order their candidates have in the concatenated
\* retrieval output (common pass, then rare pass, each in provider order).
C24_StableRanking ==
    result # Nothing
        => \A scored \in {ScoredInRetrievalOrder} :
           \A c \in {scored[i].confidence_score : i \in 1..Len(scored)} :
               SelectSeq(ranked_diagnoses, LAMBDA d : d.confidence_score = c)
                 = SelectSeq(scored, LAMBDA d : d.confidence_score = c)

\* rare diseases of equal confidence were ranked above the common condition
\* retrieved before them, and kept their retrieval order
C24_Witness ==
    /\ result # Nothing
    /\ Len(ranked_diagnoses) >= 3
    /\ common_candidates # <<>>
    /\ ranked_diagnoses[Len(ranked_diagnoses)].condition_id = common_candidates[1].condition.condition_id
    /\ ranked_diagnoses[1].condition_id = "rare_01"
    /\ ranked_diagnoses[2].condition_id = "rare_02"
    /\ ranked_diagnoses[1].confidence_score = ranked_diagnoses[2].confidence_score

\* the condition symptoms given to the comparison, typical ones first
AllConditionSymptoms == cmp_in[1].typical_symptoms \o cmp_in[1].rare_symptoms

\* s contains, or is contained in, some patient descriptor, letter case ignored
MatchesSomeDescriptor(s) ==
    \E i \in 1..Len(cmp_in[1].patient_symptoms) :
        \E low \in {Lower(s)}, descriptor \in {Lower(cmp_in[1].patient_symptoms[i])} :
            Contains(descriptor, low) \/ Contains(low, descriptor)

\* C25: the comparison returns at most 5 matching and at most 3 missing
\* symptoms, the two lists have no string in common, every matching entry is
\* a condition symptom that contains or is contained in some patient
\* descriptor case-insensitively, and every missing entry is a condition
\* symptom that matches no patient descriptor.
C25_MatchingAndMissing ==
    cmp_out # Nothing
        => /\ Len(cmp_out[1].matching) <= 5
           /\ Len(cmp_out[1].missing) <= 3
           /\ Range(cmp_out[1].matching) \cap Range(cmp_out[1].missing) = {}
           /\ \A s \in Range(cmp_out[1].matching) :
                  s \in Range(AllConditionSymptoms) /\ MatchesSomeDescriptor(s)
           /\ \A s \in Range(cmp_out[1].missing) :
                  s \in Range(AllConditionSymptoms) /\ ~MatchesSomeDescriptor(s)

\* seven condition symptoms matched a descriptor in another letter case and
\* four matched none: five and three of them were returned
C25_Witness ==
    /\ cmp_out # Nothing
    /\ Len(AllConditionSymptoms) = 11
    /\ Len(cmp_out[1].matching) = 5
    /\ Len(cmp_out[1].missing) = 3
    /\ cmp_out[1].matching[1] # Lower(cmp_out[1].matching[1])

\* C26: under every interleaving of concurrent get_diagnostic_service calls,
\* at most one DiagnosticService is constructed, every caller that has
\* returned has received the same instance, and its initialize() had
\* completed when the caller received it.
C26_OneInitializedInstance ==
    /\ container.constructed <= 1
    /\ \A t \in DOMAIN threads :
           threads[t].pc = "returned"
               => /\ threads[t].initialized_on_return
                  /\ \A u \in DOMAIN threads :
                         threads[u].pc = "returned" => threads[u].returned = threads[t].returned

\* C27: a call that entered call or call_async while the breaker was OPEN and
\* fewer than recovery_timeout seconds after its last recorded failure did not
\* invoke the wrapped function, raised CircuitBreakerError and left state and
\* failure_count as they were; and the breaker is OPEN only with failure_count
\* at or above failure_threshold.
C27_OpenFailsFast ==
    breaker # Nothing
        => /\ \A i \in 1..Len(breaker_calls) :
                  (breaker_calls[i].state_at_entry = "open" /\ ~breaker_calls[i].timeout_elapsed)
                      => /\ ~breaker_calls[i].invoked
                         /\ breaker_calls[i].outcome = "CircuitBreakerError"
                         /\ breaker_calls[i].state_at_exit = "open"
                         /\ breaker_calls[i].count_at_exit = breaker_calls[i].count_at_entry
           /\ breaker[1].state = "open" => breaker[1].failure_count >= breaker[1].failure_threshold

\* two failures opened a breaker of threshold 2, and the call made within the
\* timeout was refused
C27_Witness ==
    /\ breaker # Nothing
    /\ breaker[1].failure_threshold = 2
    /\ Len(breaker_calls) = 3
    /\ breaker_calls[3].state_at_entry = "open"
    /\ ~breaker_calls[3].timeout_elapsed
    /\ breaker_calls[3].outcome = "CircuitBreakerError"
    /\ breaker[1].state = "open"
    /\ breaker[1].failure_count = 2

\* C28: the breaker is HALF_OPEN only while a call is inside the wrapped
\* function; a call that entered an OPEN breaker after recovery_timeout had
\* elapsed invoked the wrapped function, and when it finished the breaker was
\* CLOSED with failure_count 0 if the function returned, and OPEN if it raised
\* anything.
C28_ProbeSettles ==
    breaker # Nothing
        => /\ (\A i \in 1..Len(breaker_calls) : ~breaker_calls[i].running)
                  => breaker[1].state # "half_open"
           /\ \A i \in 1..Len(breaker_calls) :
                  (/\ breaker_calls[i].state_at_entry = "open"
                   /\ breaker_calls[i].timeout_elapsed
                   /\ ~breaker_calls[i].running)
                      => /\ breaker_calls[i].invoked
                         /\ breaker_calls[i].outcome = "returns"
                               => /\ breaker_calls[i].state_at_exit = "closed"
                                  /\ breaker_calls[i].count_at_exit = 0
                         /\ breaker_calls[i].outcome # "returns"
                               => breaker_calls[i].state_at_exit = "open"

\* C29: for every similarity and prevalence in [0,1] and either value of the
\* rare-disease flag, the confidence is not greater than the similarity it was
\* computed from, and it is the value the scorer held before the cap at 1.0.
C29_ConfidenceAtMostSimilarity ==
    score_out # Nothing
        => /\ score_out[1].confidence_score <= score_in.score * (ConfOne \div SimOne)
           /\ score_out[1].confidence_score
                 = confidence_before_cap(score_in.condition, score_in.score)

\* similarity 0.9 of a common condition of prevalence 0.2: the adjustment is
\* at its largest and the confidence equals the similarity
C29_Witness ==
    /\ score_out # Nothing
    /\ score_in.score = 90
    /\ score_in.condition.prevalence = 200000
    /\ ~score_in.condition.is_rare_disease
    /\ score_out[1].confidence_score = 90 * (ConfOne \div SimOne)

\* the condition identifiers of a list of diagnoses are pairwise different
DistinctConditionIds(diagnoses) ==
    \A i, j \in 1..Len(diagnoses) :
        diagnoses[i].condition_id = diagnoses[j].condition_id => i = j

\* C30: in every returned result no condition identifier appears more than
\* once in differential_diagnoses or in rare_diseases_considered, also when the
\* common-condition pass and the rare-disease pass return the same condition.
C30_NoConditionTwice ==
    result # Nothing
        => /\ DistinctConditionIds(result[1].differential_diagnoses)
           /\ DistinctConditionIds(result[1].rare_diseases_considered)

====
